---- MODULE Spec2Model ----
(***************************************************************************)
(* Data-preparation stage of Consomation-electricite-france: the cleaners  *)
(* of the weather and price adapters, the calendar expander and the fusion *)
(* engine, each translated from its Python source.                         *)
(*                                                                         *)
(* A table (pandas DataFrame) is a sequence of records, one per row, in    *)
(* row order.  A cell that can be missing is a sequence of length 0 (NaN)  *)
(* or 1 (the value).  Numeric measurements are fixed-point integers in     *)
(* units of 1/Scale, so that the divisions of linear interpolation and of  *)
(* the median of an even number of values are exact.  A timestamp is the   *)
(* number of hours since 2026-01-01 00:00, a date the number of days since *)
(* 2026-01-01.                                                             *)
(***************************************************************************)
EXTENDS Integers, Sequences, FiniteSets, TLC

VARIABLES
    script,        \* the script (__main__) this run executes
    etape,         \* position of that script
    df_meteo,      \* collect_meteo.py: table handed to validate_meteo_data
    df_prix,       \* scrape_prix_electricite.py: table handed to validate_prix_data
    df_valide,     \* table returned by the cleaner
    doublons,      \* number printed by "... doublons supprimés" (0: nothing printed)
    df_feries,     \* load_jours_feries.py: the dated events (holidays and vacations)
    start_date,    \* first day of the calendar
    end_date,      \* last day of the calendar
    df_calendar,   \* table returned by create_hourly_calendar
    df_final,      \* table returned by merge_calendar_with_feries
    df_conso,      \* etl_fusion_donnees.py: table consommation as extracted
    df_calendrier, \* table calendrier_feries as extracted
    df_enrichi,    \* table returned by transform_data
    lignes_supprimees, \* number printed by "Lignes supprimées" (NaN: not printed)
    base,          \* the database: table name -> rows, or Absente
    fichiers,      \* the flat exports under data/: table name -> rows, or Absente
    code_sortie,   \* exit code of the process (NaN while it runs)
    messages,      \* what the run has printed, as far as the claims read it
    executions,    \* number of times the script has been started
    postgres,      \* import_to_postgres.py: table consommation of the PostgreSQL base
    requetes,      \* api/main.py: the HTTP requests in flight and where each stands
    REQUEST_IN_PROGRESS, \* the gauge api_requests_in_progress
    DB_RECORDS     \* the gauge db_consommation_records_total

varsNettoyage == <<df_prix, df_valide, doublons>>
varsCalendrier == <<df_feries, start_date, end_date, df_calendar, df_final>>

varsFusion == <<df_conso, df_calendrier, df_enrichi, lignes_supprimees>>

varsStockage == <<base, fichiers, code_sortie, messages, executions>>

varsApi == <<requetes, REQUEST_IN_PROGRESS, DB_RECORDS>>

vars == <<script, etape, df_meteo, varsNettoyage, varsCalendrier, varsFusion, varsStockage,
          postgres, varsApi>>

----------------------------------------------------------------------------
(* Bounds of the model *)

\* longest table handed to a cleaner
MaxRows == 4

\* most dated events handed to the calendar expander
MaxEvents == 2

\* last day (counted from 2026-01-01) of a calendar range or of an event
MaxDay == 1

\* longest consommation table handed to the fusion
MaxConso == 3

\* last hour (counted from 2026-01-01 00:00) of a one-row fusion
MaxHeure == 8783

----------------------------------------------------------------------------
(* Cells and fixed-point numbers *)

RECURSIVE Factorial(_)
Factorial(n) == IF n <= 1 THEN 1 ELSE n * Factorial(n - 1)

\* denominators met: k <= MaxRows - 1 (interpolation), then 2 (median)
Scale == 2 * Factorial(MaxRows)

NaN == <<>>
Val(x) == <<x>>
IsNull(c) == c = NaN
Num(c) == c[1]
Fix(n) == Val(n * Scale)

\* a sequence given as a function of its index, as an explicit tuple
Tuple(f) == f \o <<>>

Column(df, col) == Tuple([i \in 1..Len(df) |-> df[i][col]])

----------------------------------------------------------------------------
(* pandas operations used by the cleaners *)

\* interpolation restricted to the gaps that have a valid value on both sides
InterpolateInside(s) ==
    Tuple([i \in 1..Len(s) |->
        IF ~IsNull(s[i]) THEN s[i]
        ELSE LET before == {j \in 1..(i - 1) : ~IsNull(s[j])}
                 after  == {j \in (i + 1)..Len(s) : ~IsNull(s[j])}
             IN  IF before = {} \/ after = {} THEN NaN
                 ELSE LET p == CHOOSE j \in before : \A k \in before : k <= j
                          n == CHOOSE j \in after : \A k \in after : j <= k
                      IN  Val(Num(s[p])
                              + ((Num(s[n]) - Num(s[p])) * (i - p)) \div (n - p))])

\* Series.interpolate(method="linear"): limit_direction defaults to
\* "forward", the index is taken as equally spaced.  A NaN between two valid
\* values is interpolated, a NaN after the last valid value takes that value,
\* a NaN before the first valid value stays NaN.
Interpolate(s) ==
    Tuple([i \in 1..Len(s) |->
        IF ~IsNull(s[i]) THEN s[i]
        ELSE LET before == {j \in 1..(i - 1) : ~IsNull(s[j])}
                 after  == {j \in (i + 1)..Len(s) : ~IsNull(s[j])}
             IN  IF before = {} THEN NaN
                 ELSE LET p == CHOOSE j \in before : \A k \in before : k <= j
                      IN  IF after = {} THEN s[p]
                          ELSE LET n == CHOOSE j \in after : \A k \in after : j <= k
                               IN  Val(Num(s[p])
                                       + ((Num(s[n]) - Num(s[p])) * (i - p)) \div (n - p))])

\* Series.median(): NaN skipped; the middle value, or the mean of the two
\* middle values; NaN when no value is left.
Median(s) ==
    LET idx == {i \in 1..Len(s) : ~IsNull(s[i])}
        n   == Cardinality(idx)
        \* k-th smallest of the valid values
        Kth(k) == Num(s[CHOOSE i \in idx :
                     /\ Cardinality({j \in idx : Num(s[j]) < Num(s[i])}) < k
                     /\ Cardinality({j \in idx : Num(s[j]) <= Num(s[i])}) >= k])
    IN  IF n = 0 THEN NaN
        ELSE IF n % 2 = 1 THEN Val(Kth((n + 1) \div 2))
        ELSE Val((Kth(n \div 2) + Kth(n \div 2 + 1)) \div 2)

\* (s < lo) | (s > hi): a comparison with NaN is False
OutOfRange(s, lo, hi) ==
    Tuple([i \in 1..Len(s) |-> ~IsNull(s[i]) /\ (Num(s[i]) < lo \/ Num(s[i]) > hi)])

\* the mask recomputed on a column, the median recomputed after every
\* replaced row
RECURSIVE RepairRowByRow(_, _, _, _)
RepairRowByRow(s, lo, hi, i) ==
    IF i > Len(s) THEN s
    ELSE IF OutOfRange(s, lo, hi)[i]
         THEN RepairRowByRow([s EXCEPT ![i] = Median(s)], lo, hi, i + 1)
         ELSE RepairRowByRow(s, lo, hi, i + 1)

MedianRepairSequential(s, lo, hi) == RepairRowByRow(s, lo, hi, 1)

\* invalid = (s < lo) | (s > hi);  df.loc[invalid, col] = df[col].median()
\* The right-hand side is evaluated once, before the assignment.
MedianRepair(s, lo, hi) ==
    LET invalid == OutOfRange(s, lo, hi)
        mediane == Median(s)
    IN  Tuple([i \in 1..Len(s) |-> IF invalid[i] THEN mediane ELSE s[i]])

\* the rows of df, from row i on, whose index is in keep, in row order
Rows(df, keep, i) ==
    LET idx == {j \in i..Len(df) : j \in keep}
        \* position of row j among the rows kept
        pos == Tuple([j \in 1..Len(df) |->
                         IF j \in idx THEN Cardinality({k \in idx : k <= j}) ELSE 0])
    IN  Tuple([k \in 1..Cardinality(idx) |-> df[CHOOSE j \in idx : pos[j] = k]])

KeepAllRows(df) == df

\* df.drop_duplicates(subset=["datetime"]): keep="first"
DropDuplicates(df) ==
    Rows(df, {i \in 1..Len(df) :
                \A j \in 1..(i - 1) : df[j].datetime # df[i].datetime}, 1)

\* df.isnull().sum().any()
AnyMissing(df, cols) == \E i \in 1..Len(df) : \E c \in cols : IsNull(df[i][c])

\* every row kept, whatever it misses
KeepNa(df, cols) == df

\* df.dropna(): the rows without any missing cell
DropNa(df, cols) ==
    Rows(df, {i \in 1..Len(df) : \A c \in cols : ~IsNull(df[i][c])}, 1)

----------------------------------------------------------------------------
(* Cleaners: collect_meteo.validate_meteo_data,                            *)
(* scrape_prix_electricite.validate_prix_data                              *)

TempMin == -30
TempMax == 50
VentMin == 0
VentMax == 200
SoleilMin == 0
SoleilMax == 100
PrixMin == 0
PrixMax == 500

MeteoCols == {"temperature", "vent", "ensoleillement"}
PrixCols == {"prix_spot_eur_mwh"}

SetColumn(df, col, s) == Tuple([i \in 1..Len(df) |-> [df[i] EXCEPT ![col] = s[i]]])

\* lines 86-96: interpolation of the three value columns when any cell of
\* the table is missing
InterpolateMeteo(df) ==
    IF AnyMissing(df, MeteoCols)
    THEN LET d1 == SetColumn(df, "temperature", Interpolate(Column(df, "temperature")))
             d2 == SetColumn(d1, "vent", Interpolate(Column(d1, "vent")))
         IN  SetColumn(d2, "ensoleillement", Interpolate(Column(d2, "ensoleillement")))
    ELSE df

\* lines 98-110: range check of the three columns, median replacement
RepairMeteo(df) ==
    LET invalid_temp == OutOfRange(Column(df, "temperature"), TempMin * Scale, TempMax * Scale)
        invalid_wind == OutOfRange(Column(df, "vent"), VentMin * Scale, VentMax * Scale)
        invalid_sun  == OutOfRange(Column(df, "ensoleillement"), SoleilMin * Scale, SoleilMax * Scale)
        any == \E i \in 1..Len(df) : invalid_temp[i] \/ invalid_wind[i] \/ invalid_sun[i]
    IN  IF any
        THEN LET d1 == SetColumn(df, "temperature",
                           MedianRepair(Column(df, "temperature"), TempMin * Scale, TempMax * Scale))
                 d2 == SetColumn(d1, "vent",
                           MedianRepair(Column(d1, "vent"), VentMin * Scale, VentMax * Scale))
             IN  SetColumn(d2, "ensoleillement",
                           MedianRepair(Column(d2, "ensoleillement"), SoleilMin * Scale, SoleilMax * Scale))
        ELSE df

\* validate_meteo_data(df): the table returned and the count it prints
validate_meteo_data(df) ==
    LET repaired == RepairMeteo(InterpolateMeteo(df))
        before   == Len(repaired)
        out      == DropDuplicates(repaired)
    IN  [df |-> out, doublons |-> before - Len(out)]

\* lines 115-124: range check of the price column, median replacement
RepairPrix(df) ==
    SetColumn(df, "prix_spot_eur_mwh",
              MedianRepair(Column(df, "prix_spot_eur_mwh"), PrixMin * Scale, PrixMax * Scale))

\* validate_prix_data(df): rows with a missing cell are dropped first
validate_prix_data(df) ==
    LET complete == IF AnyMissing(df, PrixCols) THEN DropNa(df, PrixCols) ELSE df
        repaired == RepairPrix(complete)
        before   == Len(repaired)
        out      == DropDuplicates(repaired)
    IN  [df |-> out, doublons |-> before - Len(out)]

----------------------------------------------------------------------------
(* Inputs of the cleaners *)

\* timestamps of the rows handed to a cleaner
HeuresBrutes == 0..1

\* readings of one weather row: valid, missing, above range, below range,
\* and a row mixing the three
MeteoReadings ==
    { [temperature |-> Fix(10),  vent |-> Fix(20),  ensoleillement |-> Fix(50)],
      [temperature |-> NaN,      vent |-> NaN,      ensoleillement |-> NaN],
      [temperature |-> Fix(60),  vent |-> Fix(300), ensoleillement |-> Fix(150)],
      [temperature |-> Fix(-40), vent |-> Fix(-10), ensoleillement |-> Fix(-20)],
      [temperature |-> Fix(20),  vent |-> NaN,      ensoleillement |-> Fix(150)] }

MeteoRows ==
    { [datetime |-> h, temperature |-> r.temperature, vent |-> r.vent,
       ensoleillement |-> r.ensoleillement] : h \in HeuresBrutes, r \in MeteoReadings }

PrixReadings == { Fix(10), NaN, Fix(1000), Fix(-5) }

PrixRows == { [datetime |-> h, prix_spot_eur_mwh |-> p] : h \in HeuresBrutes, p \in PrixReadings }

Tables(rows, n) == UNION { [1..k -> rows] : k \in 0..n }

\* three hourly weather rows, one per hour, in any row order, each with
\* readings in range or without reading
HeuresDesordre == 0..2

ReadingsDesordre ==
    { [temperature |-> Fix(10), vent |-> Fix(20), ensoleillement |-> Fix(50)],
      [temperature |-> Fix(30), vent |-> Fix(40), ensoleillement |-> Fix(70)],
      [temperature |-> NaN,     vent |-> NaN,     ensoleillement |-> NaN] }

MeteoDesordre ==
    { t \in [1..3 -> { [datetime |-> h, temperature |-> r.temperature, vent |-> r.vent,
                        ensoleillement |-> r.ensoleillement] :
                          h \in HeuresDesordre, r \in ReadingsDesordre }] :
        \A i, j \in 1..3 : t[i].datetime = t[j].datetime => i = j }

----------------------------------------------------------------------------
(* Variables of the scripts that are not running *)

NettoyageAuRepos == df_prix = <<>> /\ df_valide = <<>> /\ doublons = 0

CalendrierAuRepos ==
    /\ df_feries = <<>>
    /\ start_date = 0
    /\ end_date = 0
    /\ df_calendar = <<>>
    /\ df_final = <<>>

FusionAuRepos ==
    /\ df_conso = <<>>
    /\ df_calendrier = <<>>
    /\ df_enrichi = <<>>
    /\ lignes_supprimees = NaN

\* a table or a file that does not exist
Absente == NaN

\* the tables of the database and, under the same names, the exports data/<name>.csv
NomsTables ==
    {"consommation", "meteo", "calendrier_feries", "conso_meteo_calendrier_enrichi",
     "prix_spot_electricite"}

\* no import has run and the API serves no request
ServicesAuRepos ==
    /\ postgres = Absente
    /\ requetes = <<>>
    /\ REQUEST_IN_PROGRESS = 0
    /\ DB_RECORDS = 0

StockageAuRepos ==
    /\ base = [n \in NomsTables |-> Absente]
    /\ fichiers = [n \in NomsTables |-> Absente]
    /\ code_sortie = NaN
    /\ messages = {}
    /\ executions = 1

----------------------------------------------------------------------------
(* The two collection scripts: collect, then validate *)

InitNettoyage ==
    /\ script \in {"collect_meteo", "scrape_prix"}
    /\ ServicesAuRepos
    /\ etape = "collecte"
    /\ df_meteo \in IF script = "collect_meteo"
                    THEN Tables(MeteoRows, MaxRows) \cup MeteoDesordre
                    ELSE {<<>>}
    /\ df_prix \in IF script = "scrape_prix" THEN Tables(PrixRows, MaxRows) ELSE {<<>>}
    /\ df_valide = <<>>
    /\ doublons = 0
    /\ CalendrierAuRepos
    /\ FusionAuRepos
    /\ StockageAuRepos

\* collect_meteo.py __main__, line 171
ValidateMeteoData ==
    /\ script = "collect_meteo"
    /\ etape = "collecte"
    /\ LET r == validate_meteo_data(df_meteo)
       IN  /\ df_valide' = r.df
           /\ doublons' = r.doublons
    /\ etape' = "valide"
    /\ UNCHANGED <<script, postgres, varsApi, df_meteo, df_prix, varsCalendrier, varsFusion, varsStockage>>

\* scrape_prix_electricite.py __main__, line 192
ValidatePrixData ==
    /\ script = "scrape_prix"
    /\ etape = "collecte"
    /\ LET r == validate_prix_data(df_prix)
       IN  /\ df_valide' = r.df
           /\ doublons' = r.doublons
    /\ etape' = "valide"
    /\ UNCHANGED <<script, postgres, varsApi, df_meteo, df_prix, varsCalendrier, varsFusion, varsStockage>>

NextNettoyage == ValidateMeteoData \/ ValidatePrixData

SpecNettoyage == InitNettoyage /\ [][NextNettoyage]_vars

----------------------------------------------------------------------------
(* Claims about the cleaners (checked under SpecNettoyage) *)

Valide == etape = "valide"
ValueCols == IF script = "collect_meteo" THEN MeteoCols ELSE PrixCols
Brut == IF script = "collect_meteo" THEN df_meteo ELSE df_prix

RangeOf(c) ==
    CASE c = "temperature"       -> <<TempMin * Scale, TempMax * Scale>>
      [] c = "vent"              -> <<VentMin * Scale, VentMax * Scale>>
      [] c = "ensoleillement"    -> <<SoleilMin * Scale, SoleilMax * Scale>>
      [] c = "prix_spot_eur_mwh" -> <<PrixMin * Scale, PrixMax * Scale>>

InRange(cell, c) == Num(cell) >= RangeOf(c)[1] /\ Num(cell) <= RangeOf(c)[2]

Datetimes(df) == {df[i].datetime : i \in 1..Len(df)}
IsFirst(df, i) == \A j \in 1..(i - 1) : df[j].datetime # df[i].datetime

\* C3: the table returned by a cleaner holds no value outside the declared
\* range of its column (temperature [-30, 50], vent [0, 200], ensoleillement
\* [0, 100], prix_spot_eur_mwh [0, 500]), whatever share of the column was
\* out of range.
C3_CleanedInRange ==
    Valide =>
        \A i \in 1..Len(df_valide) : \A c \in ValueCols :
            ~IsNull(df_valide[i][c]) => InRange(df_valide[i][c], c)

\* C4: the table returned by validate_meteo_data has no missing value in
\* temperature, vent or ensoleillement, wherever the missing entries were.
C4_NoMissingAfterValidateMeteo ==
    (Valide /\ script = "collect_meteo") =>
        \A i \in 1..Len(df_valide) : \A c \in MeteoCols : ~IsNull(df_valide[i][c])

\* C5: the table returned by a cleaner has at most one row per datetime.
C5_UniqueDatetime ==
    Valide =>
        \A i, j \in 1..Len(df_valide) :
            df_valide[i].datetime = df_valide[j].datetime => i = j

\* C5 witness: a weather table with three rows of one timestamp was cleaned.
C5_Witness ==
    /\ Valide
    /\ script = "collect_meteo"
    /\ \E i, j, k \in 1..Len(df_meteo) :
          /\ i < j /\ j < k
          /\ df_meteo[i].datetime = df_meteo[j].datetime
          /\ df_meteo[j].datetime = df_meteo[k].datetime
    /\ Len(df_valide) >= 1

\* the column as it stands when the range repair starts: after the
\* interpolation (weather), after the rows with a missing price are dropped
\* (price)
AvantReparation ==
    IF script = "collect_meteo" THEN InterpolateMeteo(df_meteo)
    ELSE IF AnyMissing(df_prix, PrixCols) THEN DropNa(df_prix, PrixCols) ELSE df_prix

\* C6: every out-of-range value of a column is replaced by one and the same
\* value, the median of the entire column as it stood before any replacement
\* (out-of-range rows and rows later removed as duplicates included); values
\* in range are left as they are.  [10, 10, 10, 1000] in [0, 500]: the 1000
\* becomes 10.
C6_MedianOfOriginalColumn ==
    Valide =>
        LET pre == AvantReparation
        IN  /\ \A c \in ValueCols : \A i \in 1..Len(pre) :
                   IsFirst(pre, i) =>
                       \E k \in 1..Len(df_valide) :
                           /\ df_valide[k].datetime = pre[i].datetime
                           /\ df_valide[k][c] =
                                 IF ~IsNull(pre[i][c]) /\ ~InRange(pre[i][c], c)
                                 THEN Median(Column(pre, c))
                                 ELSE pre[i][c]
            /\ (script = "scrape_prix"
                  /\ Column(df_prix, "prix_spot_eur_mwh") = <<Fix(10), Fix(10), Fix(10), Fix(1000)>>)
               => \A k \in 1..Len(df_valide) : df_valide[k].prix_spot_eur_mwh = Fix(10)

\* C6 witness: the price column [10, 10, 1000, 1000] on two timestamps was
\* cleaned; both 1000 became the median 505 of the four values.
C6_Witness ==
    /\ Valide
    /\ script = "scrape_prix"
    /\ Column(df_prix, "prix_spot_eur_mwh") = <<Fix(10), Fix(1000), Fix(10), Fix(1000)>>
    /\ Column(df_prix, "datetime") = <<0, 1, 0, 1>>
    /\ Column(df_valide, "prix_spot_eur_mwh") = <<Fix(10), Fix(505)>>

\* C7: for each datetime of the cleaner's input the output row is the first
\* input row carrying it (as repaired), and the count reported is the number
\* of input rows minus the number of distinct datetimes.  The weather row is
\* compared with the first row after interpolation and range repair; the
\* price row, which no interpolation touches, wherever the first row holds a
\* price in range.
C7_KeepsFirstOccurrence ==
    Valide =>
        /\ Datetimes(df_valide) = Datetimes(Brut)
        /\ doublons = Len(Brut) - Cardinality(Datetimes(Brut))
        /\ \A i \in 1..Len(Brut) :
              IsFirst(Brut, i) =>
                  \E k \in 1..Len(df_valide) :
                      /\ df_valide[k].datetime = Brut[i].datetime
                      /\ IF script = "collect_meteo"
                         THEN df_valide[k] = RepairMeteo(InterpolateMeteo(df_meteo))[i]
                         ELSE \A c \in PrixCols :
                                 (~IsNull(Brut[i][c]) /\ InRange(Brut[i][c], c))
                                     => df_valide[k][c] = Brut[i][c]

\* C20: in the table returned by validate_meteo_data, a reading that was
\* missing and has a valid reading of its column both at an earlier and at a
\* later timestamp holds the linear interpolation between the nearest such
\* readings in timestamp order, whatever the row order of the input.  Stated
\* for inputs with one row per timestamp and neighbours in range, which the
\* range repair leaves as they are.
C20_InterpolationInTimestampOrder ==
    (Valide /\ script = "collect_meteo"
        /\ \A i, j \in 1..Len(df_meteo) : df_meteo[i].datetime = df_meteo[j].datetime => i = j) =>
        \A i \in 1..Len(df_meteo) : \A c \in MeteoCols :
            LET t     == df_meteo[i].datetime
                valid == {j \in 1..Len(df_meteo) : ~IsNull(df_meteo[j][c])}
                avant == {j \in valid : df_meteo[j].datetime < t}
                apres == {j \in valid : df_meteo[j].datetime > t}
            IN  (IsNull(df_meteo[i][c]) /\ avant # {} /\ apres # {}) =>
                    LET p == CHOOSE j \in avant :
                                \A k \in avant : df_meteo[k].datetime <= df_meteo[j].datetime
                        n == CHOOSE j \in apres :
                                \A k \in apres : df_meteo[j].datetime <= df_meteo[k].datetime
                        v == Num(df_meteo[p][c])
                               + ((Num(df_meteo[n][c]) - Num(df_meteo[p][c]))
                                    * (t - df_meteo[p].datetime))
                                 \div (df_meteo[n].datetime - df_meteo[p].datetime)
                    IN  (InRange(df_meteo[p][c], c) /\ InRange(df_meteo[n][c], c)) =>
                            \E k \in 1..Len(df_valide) :
                                /\ df_valide[k].datetime = t
                                /\ df_valide[k][c] = Val(v)

\* the rows of the weather table that hold a reading of column c before
\* (after) row i
ValidBefore(c, i) == {j \in 1..(i - 1) : ~IsNull(df_meteo[j][c])}
ValidAfter(c, i) == {j \in (i + 1)..Len(df_meteo) : ~IsNull(df_meteo[j][c])}

\* C21 as stated: after the interpolation step of validate_meteo_data a
\* missing reading without valid reading before it in its column, and
\* likewise one without valid reading after it, is still missing.
C21_BoundaryGapsStayMissing ==
    (Valide /\ script = "collect_meteo") =>
        LET apres == InterpolateMeteo(df_meteo)
        IN  \A i \in 1..Len(df_meteo) : \A c \in MeteoCols :
                (IsNull(df_meteo[i][c]) /\ (ValidBefore(c, i) = {} \/ ValidAfter(c, i) = {}))
                    => IsNull(apres[i][c])

\* C21 amended: after the interpolation step a missing reading without valid
\* reading before it in its column is still missing (and missing in the
\* returned table when it is the first row of its timestamp), while a missing
\* reading with a valid reading before it and none after it holds the last
\* valid reading of the column.
C21_LeadingGapStaysTrailingGapFilled ==
    (Valide /\ script = "collect_meteo") =>
        LET apres == InterpolateMeteo(df_meteo)
        IN  \A i \in 1..Len(df_meteo) : \A c \in MeteoCols :
                IsNull(df_meteo[i][c]) =>
                    /\ ValidBefore(c, i) = {} =>
                          /\ IsNull(apres[i][c])
                          /\ IsFirst(df_meteo, i) =>
                                \E k \in 1..Len(df_valide) :
                                    /\ df_valide[k].datetime = df_meteo[i].datetime
                                    /\ IsNull(df_valide[k][c])
                    /\ (ValidBefore(c, i) # {} /\ ValidAfter(c, i) = {}) =>
                          \E p \in ValidBefore(c, i) :
                              /\ \A j \in ValidBefore(c, i) : j <= p
                              /\ apres[i][c] = df_meteo[p][c]

\* C21 witness: the temperatures [NaN, 10, NaN] of three hours were cleaned
\* to [NaN, 10, 10].
C21_Witness ==
    /\ Valide
    /\ script = "collect_meteo"
    /\ Column(df_meteo, "datetime") = <<0, 1, 2>>
    /\ Column(df_meteo, "temperature") = <<NaN, Fix(10), NaN>>
    /\ Column(df_valide, "temperature") = <<NaN, Fix(10), Fix(10)>>

\* C24: validate_prix_data applies the rules of validate_meteo_data to the
\* price column: missing prices are filled by linear interpolation, then the
\* range repair, then the duplicates are removed; so every timestamp of the
\* input keeps a row and the only rows removed are later rows of a timestamp
\* already seen.
C24_PriceCleanerInterpolates ==
    (Valide /\ script = "scrape_prix") =>
        LET filled == IF AnyMissing(df_prix, PrixCols)
                      THEN SetColumn(df_prix, "prix_spot_eur_mwh",
                                     Interpolate(Column(df_prix, "prix_spot_eur_mwh")))
                      ELSE df_prix
        IN  /\ Datetimes(df_valide) = Datetimes(df_prix)
            /\ Len(df_valide) = Cardinality(Datetimes(df_prix))
            /\ df_valide = DropDuplicates(RepairPrix(filled))

\* C28: validate_meteo_data applied to the table it returned gives that
\* table again, and reports no duplicate.
C28_CleanerIdempotent ==
    (Valide /\ script = "collect_meteo") =>
        /\ validate_meteo_data(df_valide).df = df_valide
        /\ validate_meteo_data(df_valide).doublons = 0

----------------------------------------------------------------------------
(* pandas merge and groupby *)

\* the rows of right (reduced to cols) that match the left row l on key, each
\* appended to l, in the order of right
Matches(l, right, key, cols, j) ==
    LET m == Rows(right, {k \in 1..Len(right) : right[k][key] = l[key]}, j)
    IN  Tuple([k \in 1..Len(m) |-> l @@ [c \in cols |-> m[k][c]]])

\* pd.merge(left, right, on=key, how=how): the order of the left rows is
\* kept; a left row without match gives no row (inner) or one row whose
\* right-hand columns are NaN (left)
RECURSIVE MergeFrom(_, _, _, _, _, _)
MergeFrom(left, right, key, how, cols, i) ==
    IF i > Len(left) THEN <<>>
    ELSE LET m == Matches(left[i], right, key, cols, 1)
         IN  (IF m = <<>> /\ how = "left"
              THEN <<left[i] @@ [c \in cols |-> NaN]>>
              ELSE m) \o MergeFrom(left, right, key, how, cols, i + 1)

Merge(left, right, key, how, cols) == MergeFrom(left, right, key, how, cols, 1)

\* the elements of a finite set of integers in increasing order
Sorted(S) ==
    IF S = {} THEN <<>>
    ELSE LET lo == CHOOSE x \in S : \A y \in S : x <= y
             hi == CHOOSE x \in S : \A y \in S : y <= x
             \* number of elements up to lo + i - 1
             rank == Tuple([i \in 1..(hi - lo + 1) |->
                               Cardinality({y \in S : y <= lo + i - 1})])
         IN  Tuple([k \in 1..Cardinality(S) |-> CHOOSE x \in S : rank[x - lo + 1] = k])

\* agg "min" of a boolean column
AggMin(flags) == \A i \in 1..Len(flags) : flags[i]

\* agg "max" of a boolean column: True when any is True
RECURSIVE AggMax(_)
AggMax(flags) ==
    IF Len(flags) = 1 THEN flags[1]
    ELSE IF flags[1] THEN TRUE ELSE AggMax(Tail(flags))

\* agg "first" of a column
AggFirst(s) == s[1]

\* Series.fillna(v)
FillNa(cell, v) == IF IsNull(cell) THEN v ELSE Num(cell)

----------------------------------------------------------------------------
(* Calendar expander: load_jours_feries.create_hourly_calendar and         *)
(* merge_calendar_with_feries                                              *)

HeuresParJour == 24

\* pd.date_range(start=start_date, end=f"{end_date} 23:00:00", freq="h"),
\* with the date column truncated from datetime
create_hourly_calendar(start, end) ==
    LET first == HeuresParJour * start
        last  == HeuresParJour * end + (HeuresParJour - 1)
    IN  Tuple([i \in 1..(IF last >= first THEN last - first + 1 ELSE 0) |->
                  [datetime |-> first + i - 1,
                   date     |-> (first + i - 1) \div HeuresParJour]])

\* lines 126-129: the two indicators of every event
WithIndicators(feries) ==
    Tuple([i \in 1..Len(feries) |->
              feries[i] @@ [est_ferie    |-> feries[i].type = "fixe" \/ feries[i].type = "mobile",
                            est_vacances |-> feries[i].type = "vacances"]])

\* the events without aggregation, one row per event
FeriesParEvenement(feries) ==
    Tuple([i \in 1..Len(feries) |->
              [date         |-> feries[i].date,
               est_ferie    |-> Val(feries[i].est_ferie),
               est_vacances |-> Val(feries[i].est_vacances),
               nom_ferie    |-> Val(feries[i].nom_ferie)]])

\* lines 132-136: groupby("date").agg(max, max, first).reset_index(): one
\* row per date, dates in increasing order
FeriesAgg(feries) ==
    LET dates == Sorted({feries[i].date : i \in 1..Len(feries)})
        Group(d) == Rows(feries, {i \in 1..Len(feries) : feries[i].date = d}, 1)
    IN  Tuple([k \in 1..Len(dates) |->
                  LET g == Group(dates[k])
                  IN  [date         |-> dates[k],
                       est_ferie    |-> Val(AggMax(Column(g, "est_ferie"))),
                       est_vacances |-> Val(AggMax(Column(g, "est_vacances"))),
                       nom_ferie    |-> Val(AggFirst(Column(g, "nom_ferie")))]])

CalendrierCols == {"est_ferie", "est_vacances", "nom_ferie"}

\* merge_calendar_with_feries(df_calendar, df_feries)
merge_calendar_with_feries(calendar, feries) ==
    LET df_feries_agg == FeriesAgg(WithIndicators(feries))
        df_merged == Merge(calendar, df_feries_agg, "date", "left", CalendrierCols)
    IN  Tuple([i \in 1..Len(df_merged) |->
                  [df_merged[i] EXCEPT
                      !.est_ferie    = FillNa(@, FALSE),
                      !.est_vacances = FillNa(@, FALSE),
                      !.nom_ferie    = FillNa(@, "")]])

----------------------------------------------------------------------------
(* Inputs of the calendar expander *)

Jours == 0..MaxDay

Evenements ==
    { [date |-> d, type |-> t, nom_ferie |-> n] :
        d \in Jours, t \in {"fixe", "mobile", "vacances"},
        n \in {"Jour de l'an", "Vacances de Noel"} }

\* enrich_with_vacances_scolaires returns the events sorted by date
SortedByDate(df) == \A i \in 1..(Len(df) - 1) : df[i].date <= df[i + 1].date

----------------------------------------------------------------------------
(* load_jours_feries.py: expand the calendar, then merge the events *)

InitCalendrier ==
    /\ script = "load_jours_feries"
    /\ ServicesAuRepos
    /\ etape = "charge"
    /\ df_feries \in {t \in Tables(Evenements, MaxEvents) : SortedByDate(t)}
    /\ start_date \in Jours
    /\ end_date \in {d \in Jours : start_date <= d}
    /\ df_calendar = <<>>
    /\ df_final = <<>>
    /\ df_meteo = <<>>
    /\ NettoyageAuRepos
    /\ FusionAuRepos
    /\ StockageAuRepos

\* __main__, line 206
CreateHourlyCalendar ==
    /\ script = "load_jours_feries"
    /\ etape = "charge"
    /\ df_calendar' = create_hourly_calendar(start_date, end_date)
    /\ etape' = "calendrier"
    /\ UNCHANGED <<script, postgres, varsApi, df_meteo, varsNettoyage, varsFusion, varsStockage,
                   df_feries, start_date, end_date, df_final>>

\* __main__, line 209
MergeCalendarWithFeries ==
    /\ script = "load_jours_feries"
    /\ etape = "calendrier"
    /\ df_final' = merge_calendar_with_feries(df_calendar, df_feries)
    /\ etape' = "fusionne"
    /\ UNCHANGED <<script, postgres, varsApi, df_meteo, varsNettoyage, varsFusion, varsStockage,
                   df_feries, start_date, end_date, df_calendar>>

NextCalendrier == CreateHourlyCalendar \/ MergeCalendarWithFeries

SpecCalendrier == InitCalendrier /\ [][NextCalendrier]_vars

----------------------------------------------------------------------------
(* Claims about the calendar expander (checked under SpecCalendrier) *)

Fusionne == etape = "fusionne"

\* C8: create_hourly_calendar followed by merge_calendar_with_feries returns
\* exactly 24 rows per day of [start_date, end_date], one row per hour in
\* order, without gap or duplicate, whatever events are supplied; two days
\* give 48 rows.
C8_CalendarDense ==
    Fusionne =>
        /\ Len(df_final) = 24 * (end_date - start_date + 1)
        /\ \A i \in 1..Len(df_final) :
              df_final[i].datetime = 24 * start_date + (i - 1)
        /\ (end_date = start_date + 1) => Len(df_final) = 48

\* C8 witness: a two-day calendar was merged with two events of one day.
C8_Witness ==
    /\ Fusionne
    /\ start_date = 0 /\ end_date = 1
    /\ Len(df_feries) = 2
    /\ df_feries[1].date = df_feries[2].date
    /\ Len(df_final) = 48

EventsOn(d) == {i \in 1..Len(df_feries) : df_feries[i].date = d}

\* C9: in every hourly row est_ferie is true exactly when an event of that
\* day has type fixe or mobile, est_vacances exactly when an event of that day
\* has type vacances; a row whose day has no event has both flags false and
\* an empty nom_ferie.
C9_FlagsAreDailyOr ==
    Fusionne =>
        \A i \in 1..Len(df_final) :
            LET row == df_final[i]
                ev  == EventsOn(row.datetime \div 24)
            IN  /\ row.est_ferie = (\E e \in ev : df_feries[e].type \in {"fixe", "mobile"})
                /\ row.est_vacances = (\E e \in ev : df_feries[e].type = "vacances")
                /\ ev = {} => (~row.est_ferie /\ ~row.est_vacances /\ row.nom_ferie = "")

\* C9 witness: a day carrying a vacation event and then a holiday has both
\* flags true, and another day of the range has no event.
C9_Witness ==
    /\ Fusionne
    /\ Len(df_feries) = 2
    /\ df_feries[1].date = 1 /\ df_feries[1].type = "vacances"
    /\ df_feries[2].date = 1 /\ df_feries[2].type = "mobile"
    /\ Len(df_final) = 48
    /\ df_final[48].est_ferie /\ df_final[48].est_vacances
    /\ ~df_final[1].est_ferie /\ df_final[1].nom_ferie = ""

----------------------------------------------------------------------------
(* Timestamps: pd.to_datetime and the .dt accessors *)

EpochYear == 2026

IsLeap(y) == (y % 4 = 0 /\ y % 100 # 0) \/ y % 400 = 0

DaysInMonth(y, m) ==
    IF m = 2 THEN (IF IsLeap(y) THEN 29 ELSE 28)
    ELSE IF m \in {4, 6, 9, 11} THEN 30 ELSE 31

\* the civil date that lies d days after the first day of month m of year y
RECURSIVE CivilFrom(_, _, _)
CivilFrom(y, m, d) ==
    IF d < DaysInMonth(y, m) THEN [year |-> y, month |-> m, day |-> d + 1]
    ELSE IF m = 12 THEN CivilFrom(y + 1, 1, d - DaysInMonth(y, m))
    ELSE CivilFrom(y, m + 1, d - DaysInMonth(y, m))

\* the Timestamp of the hour t
Timestamp(t) == CivilFrom(EpochYear, 1, t \div 24) @@ [hour |-> t % 24]

\* pandas dayofweek (Sakamoto's method, then Monday = 0)
DayOfWeek(y, m, d) ==
    LET sakamoto == <<0, 3, 2, 5, 0, 3, 5, 1, 4, 6, 2, 4>>
        yy  == IF m < 3 THEN y - 1 ELSE y
        day == (yy + yy \div 4 - yy \div 100 + yy \div 400 + sakamoto[m] + d) % 7
    IN  (day + 6) % 7

\* (jour_semaine > 5).astype(int)
EstWeekendStrict(jour_semaine) == IF jour_semaine > 5 THEN 1 ELSE 0

\* line 133: (df_merged["jour_semaine"] >= 5).astype(int)
EstWeekend(jour_semaine) == IF jour_semaine >= 5 THEN 1 ELSE 0

\* lines 127-133: the five temporal features of one row
WithFeatures(row) ==
    LET ts == Timestamp(row.datetime)
        js == DayOfWeek(ts.year, ts.month, ts.day)
    IN  row @@ [heure        |-> ts.hour,
                jour_semaine |-> js,
                mois         |-> ts.month,
                jour_mois    |-> ts.day,
                est_weekend  |-> EstWeekend(js)]

----------------------------------------------------------------------------
(* Fusion engine: etl_fusion_donnees.transform_data *)

\* bool.astype(int)
AsInt(b) == IF b THEN 1 ELSE 0

\* line 113: df_calendrier[calendrier_cols]
CalendrierMini(calendrier) ==
    Tuple([i \in 1..Len(calendrier) |->
              [datetime     |-> calendrier[i].datetime,
               est_ferie    |-> Val(calendrier[i].est_ferie),
               est_vacances |-> Val(calendrier[i].est_vacances),
               nom_ferie    |-> Val(calendrier[i].nom_ferie)]])

\* the columns of the merged table that can hold a missing value
FusionCols == MeteoCols \cup CalendrierCols

\* transform_data(df_conso, df_meteo, df_calendrier): the table returned and
\* the count it prints
transform_data(conso, meteo, calendrier) ==
    LET fusion1  == Merge(conso, meteo, "datetime", "inner", MeteoCols)
        fusion2  == Merge(fusion1, CalendrierMini(calendrier), "datetime", "left",
                          CalendrierCols)
        features == Tuple([i \in 1..Len(fusion2) |-> WithFeatures(fusion2[i])])
        missing  == AnyMissing(features, FusionCols)
        kept     == IF missing THEN DropNa(features, FusionCols) ELSE features
        out      == Tuple([i \in 1..Len(kept) |->
                              [kept[i] EXCEPT
                                  !.est_ferie    = AsInt(FillNa(@, FALSE)),
                                  !.est_vacances = AsInt(FillNa(@, FALSE)),
                                  !.nom_ferie    = FillNa(@, "")]])
    IN  [df |-> out,
         lignes_supprimees |-> IF missing THEN Val(Len(conso) - Len(kept)) ELSE NaN]

----------------------------------------------------------------------------
(* Inputs of the fusion: the three tables read by extract_data *)

HeuresFusion == 0..2

ConsoRows == { [datetime |-> h, mw_conso |-> mw] : h \in HeuresFusion, mw \in {45000, 57000} }

\* a stored weather row: complete, or without a reading
MeteoStored ==
    { [datetime |-> h, temperature |-> r.temperature, vent |-> r.vent,
       ensoleillement |-> r.ensoleillement] :
        h \in HeuresFusion,
        r \in { [temperature |-> Fix(10), vent |-> Fix(20), ensoleillement |-> Fix(50)],
                [temperature |-> NaN,     vent |-> NaN,     ensoleillement |-> NaN] } }

CalendrierRows ==
    { [datetime |-> h, date |-> h \div HeuresParJour, est_ferie |-> f,
       est_vacances |-> FALSE, nom_ferie |-> IF f THEN "Jour de l'an" ELSE ""] :
        h \in HeuresFusion, f \in BOOLEAN }

\* SELECT * FROM ... ORDER BY datetime
OrderedByDatetime(df) == \A i \in 1..(Len(df) - 1) : df[i].datetime <= df[i + 1].datetime
UniqueDatetime(df) == \A i, j \in 1..Len(df) : df[i].datetime = df[j].datetime => i = j

\* validate_meteo_data leaves missing readings only before the first valid one
MissingOnlyLeading(df) ==
    \A i, j \in 1..Len(df) : (i < j /\ IsNull(df[j].temperature)) => IsNull(df[i].temperature)

\* the consommation table can hold a timestamp several times
\* (import_to_postgres appends); the weather and calendar tables are written
\* with unique timestamps
ConsoTables == {t \in Tables(ConsoRows, MaxConso) : OrderedByDatetime(t)}
MeteoTables ==
    {t \in Tables(MeteoStored, Cardinality(HeuresFusion)) :
        OrderedByDatetime(t) /\ UniqueDatetime(t) /\ MissingOnlyLeading(t)}
CalendrierTables ==
    {t \in Tables(CalendrierRows, Cardinality(HeuresFusion)) :
        OrderedByDatetime(t) /\ UniqueDatetime(t)}

\* one complete row of each table at the hour t
UneHeure(t) ==
    [conso |-> <<[datetime |-> t, mw_conso |-> 45000]>>,
     meteo |-> <<[datetime |-> t, temperature |-> Fix(10), vent |-> Fix(20),
                  ensoleillement |-> Fix(50)]>>,
     calendrier |-> <<[datetime |-> t, date |-> t \div HeuresParJour, est_ferie |-> FALSE,
                       est_vacances |-> FALSE, nom_ferie |-> ""]>>]

----------------------------------------------------------------------------
(* etl_fusion_donnees.py: extract, then transform *)

InitFusion ==
    /\ script = "etl_fusion_donnees"
    /\ ServicesAuRepos
    /\ etape = "extrait"
    /\ \/ /\ df_conso \in ConsoTables
          /\ df_meteo \in MeteoTables
          /\ df_calendrier \in CalendrierTables
       \/ \E t \in 0..MaxHeure :
             /\ df_conso = UneHeure(t).conso
             /\ df_meteo = UneHeure(t).meteo
             /\ df_calendrier = UneHeure(t).calendrier
    /\ df_enrichi = <<>>
    /\ lignes_supprimees = NaN
    /\ NettoyageAuRepos
    /\ CalendrierAuRepos
    /\ StockageAuRepos

\* run_etl_pipeline, line 228
TransformData ==
    /\ script = "etl_fusion_donnees"
    /\ etape = "extrait"
    /\ LET r == transform_data(df_conso, df_meteo, df_calendrier)
       IN  /\ df_enrichi' = r.df
           /\ lignes_supprimees' = r.lignes_supprimees
    /\ etape' = "transforme"
    /\ UNCHANGED <<script, postgres, varsApi, df_meteo, df_conso, df_calendrier, varsNettoyage, varsCalendrier,
                   varsStockage>>

NextFusion == TransformData

SpecFusion == InitFusion /\ [][NextFusion]_vars

----------------------------------------------------------------------------
(* Claims about the fusion engine (checked under SpecFusion) *)

Transforme == etape = "transforme"

\* the pairs (consumption row, weather row) of one timestamp: the rows of
\* the inner join
Jointure ==
    {<<i, j>> \in (1..Len(df_conso)) \X (1..Len(df_meteo)) :
        df_conso[i].datetime = df_meteo[j].datetime}

RowsAt(df, d) == {k \in 1..Len(df) : df[k].datetime = d}

\* C1: every row of the consumption-weather inner join that has no calendar
\* row (every row when the calendar table is empty) is still in the table
\* returned by transform_data, with est_ferie = 0, est_vacances = 0 and
\* nom_ferie = "".  Stated for the joined rows whose weather readings are
\* all present, which no other step of transform_data removes.
C1_CalendarLeftJoinTolerant ==
    Transforme =>
        \A p \in Jointure :
            LET d == df_conso[p[1]].datetime
            IN  (/\ RowsAt(df_calendrier, d) = {}
                 /\ \A c \in MeteoCols : ~IsNull(df_meteo[p[2]][c])) =>
                    \E k \in RowsAt(df_enrichi, d) :
                        /\ df_enrichi[k].est_ferie = 0
                        /\ df_enrichi[k].est_vacances = 0
                        /\ df_enrichi[k].nom_ferie = ""

CommonDatetimes == Datetimes(df_conso) \cap Datetimes(df_meteo)

\* C2: a timestamp is in the table returned by transform_data only if it is
\* in both the consumption and the weather table; when both have unique
\* timestamps and the calendar has a row for every hour, the output has
\* exactly one row per common timestamp (consumption {0,1,2} and weather
\* {1,2}: the 2 rows of hours 1 and 2).
C2_InnerJoinOnWeather ==
    Transforme =>
        /\ Datetimes(df_enrichi) \subseteq CommonDatetimes
        /\ (/\ UniqueDatetime(df_conso)
            /\ UniqueDatetime(df_meteo)
            /\ UniqueDatetime(df_calendrier)
            /\ CommonDatetimes \subseteq Datetimes(df_calendrier))
           => /\ \A d \in CommonDatetimes : Cardinality(RowsAt(df_enrichi, d)) = 1
              /\ (Datetimes(df_conso) = {0, 1, 2} /\ Datetimes(df_meteo) = {1, 2})
                    => Column(df_enrichi, "datetime") = <<1, 2>>

\* days of 2026 before the first day of each month
JoursAvantMois == <<0, 31, 59, 90, 120, 151, 181, 212, 243, 273, 304, 334>>

\* C10: heure, jour_semaine (Monday = 0), mois and jour_mois of every fused
\* row are the hour, weekday, month and day of month of the row's datetime,
\* and est_weekend is 1 exactly when jour_semaine is 5 or 6; 2026-01-03 08:00
\* gives heure = 8, jour_semaine = 5, est_weekend = 1.  (2026-01-01 is a
\* Thursday; the timestamps checked run to the first days of 2027.)
C10_TemporalFeatures ==
    Transforme =>
        \A k \in 1..Len(df_enrichi) :
            LET row  == df_enrichi[k]
                jour == row.datetime \div 24
            IN  /\ row.heure = row.datetime % 24
                /\ row.jour_semaine = (3 + jour) % 7
                /\ row.mois \in 1..12
                /\ IF jour < 365
                   THEN JoursAvantMois[row.mois] + row.jour_mois - 1 = jour
                   ELSE row.mois = 1 /\ row.jour_mois = jour - 364
                /\ row.jour_mois \in 1..31
                /\ row.est_weekend = (IF row.jour_semaine \in {5, 6} THEN 1 ELSE 0)
                /\ row.datetime = 56 =>
                      (row.heure = 8 /\ row.jour_semaine = 5 /\ row.est_weekend = 1)

\* C10 witness: the row of 2026-01-03 08:00 (hour 56) was fused.
C10_Witness ==
    /\ Transforme
    /\ Len(df_enrichi) = 1
    /\ df_enrichi[1].datetime = 56
    /\ df_enrichi[1].jour_mois = 3
    /\ df_enrichi[1].est_weekend = 1

Min(a, b) == IF a <= b THEN a ELSE b

\* C11: the table returned by transform_data has at most
\* min(rows of the consumption table, rows of the weather table) rows.
C11_RowCountBounded ==
    Transforme => Len(df_enrichi) <= Min(Len(df_conso), Len(df_meteo))

\* the names a calendar row can carry
NomsFeries == {"", "Jour de l'an"}

\* C12: no cell of the table returned by transform_data is missing: the
\* three weather readings of every row are present, est_ferie and
\* est_vacances are 0 or 1, nom_ferie is a string, and the consumption and
\* the five temporal features are numbers.
C12_CompleteFeatureVector ==
    Transforme =>
        \A k \in 1..Len(df_enrichi) :
            LET row == df_enrichi[k]
            IN  /\ \A c \in MeteoCols : ~IsNull(row[c])
                /\ row.est_ferie \in {0, 1}
                /\ row.est_vacances \in {0, 1}
                /\ row.nom_ferie \in NomsFeries
                /\ row.mw_conso \in Nat
                /\ \A c \in {"heure", "jour_semaine", "mois", "jour_mois", "est_weekend"} :
                       row[c] \in Nat

\* C12 witness: a joined row without weather reading and a joined row
\* without calendar row were dropped, a complete row was returned.
C12_Witness ==
    /\ Transforme
    /\ \E p \in Jointure : IsNull(df_meteo[p[2]].temperature)
    /\ \E p \in Jointure :
          /\ ~IsNull(df_meteo[p[2]].temperature)
          /\ RowsAt(df_calendrier, df_conso[p[1]].datetime) = {}
    /\ Len(df_enrichi) >= 1
    /\ ~IsNull(lignes_supprimees)

\* the table after the two joins (lines 105-116), before any row is dropped
ApresJointures ==
    Merge(Merge(df_conso, df_meteo, "datetime", "inner", MeteoCols),
          CalendrierMini(df_calendrier), "datetime", "left", CalendrierCols)

\* C19: the count printed by transform_data ("Lignes supprimées") is the
\* number of rows of the joined table that were removed because a cell was
\* missing; a consumption row that the inner join did not match is not
\* counted.
C19_DropCountIsMissingRows ==
    (Transforme /\ ~IsNull(lignes_supprimees)) =>
        Num(lignes_supprimees) = Len(ApresJointures) - Len(df_enrichi)

----------------------------------------------------------------------------
(* The database and the flat exports: DataFrame.to_sql, read_sql, to_csv   *)

\* longest consommation table found in the database by a pipeline run
MaxStock == 2

\* number of times the pipeline is started
MaxExecutions == 2

Enrichi == "conso_meteo_calendrier_enrichi"

\* one printed line: the run that printed it, its text, the number in it
Msg(text) == <<executions, text, 0>>
MsgN(text, n) == <<executions, text, n>>

\* df.to_sql(name, engine, if_exists="append"): rows added to the table
ToSqlAppend(ancien, df) == IF IsNull(ancien) THEN Val(df) ELSE Val(Num(ancien) \o df)

\* df.to_sql(name, engine, if_exists="replace", index=False): the table is
\* dropped and created again from df
ToSqlReplace(ancien, df) == Val(df)

\* df.to_csv(path, index=False): the file is rewritten with the rows of df
ToCsv(ancien, df) == Val(df)

\* SELECT COUNT(*) as total FROM name
Count(table) == Len(Num(table))

\* SELECT * FROM name ORDER BY datetime
OrderBy(df) ==
    LET dts == Sorted(Datetimes(df))
        RECURSIVE From(_)
        From(k) == IF k > Len(dts) THEN <<>>
                   ELSE Rows(df, RowsAt(df, dts[k]), 1) \o From(k + 1)
    IN  From(1)

\* where a write can raise (database unreachable or locked, disk full, data/
\* not writable)
Pannes == {"aucune", "to_sql", "to_csv"}

----------------------------------------------------------------------------
(* etl_fusion_donnees.py: extract_data, load_data, run_etl_pipeline        *)

Prerequis == {"consommation", "meteo", "calendrier_feries"}

\* extract_data(): the three tables, or (None, None, None) when the table
\* meteo or calendrier_feries cannot be read; the read of consommation
\* (line 46) is outside any try, its exception leaves the function
extract_data(b) ==
    LET rien == [conso |-> <<>>, meteo |-> <<>>, calendrier |-> <<>>]
    IN  IF IsNull(b["consommation"])
        THEN rien @@ [issue |-> "exception",
                      messages |-> {Msg("Traceback (most recent call last)")}]
        ELSE IF IsNull(b["meteo"])
        THEN rien @@ [issue |-> "None",
                      messages |-> {MsgN("enregistrements consommation", Count(b["consommation"])),
                                    Msg("Table meteo non trouvée"),
                                    Msg("Exécuter d'abord: python src/collect_meteo.py")}]
        ELSE IF IsNull(b["calendrier_feries"])
        THEN rien @@ [issue |-> "None",
                      messages |-> {MsgN("enregistrements consommation", Count(b["consommation"])),
                                    MsgN("enregistrements météo", Count(b["meteo"])),
                                    Msg("Table calendrier_feries non trouvée"),
                                    Msg("Exécuter d'abord: python src/load_jours_feries.py")}]
        ELSE [issue |-> "ok",
              conso |-> OrderBy(Num(b["consommation"])),
              meteo |-> OrderBy(Num(b["meteo"])),
              calendrier |-> OrderBy(Num(b["calendrier_feries"])),
              messages |-> {MsgN("enregistrements consommation", Count(b["consommation"])),
                            MsgN("enregistrements météo", Count(b["meteo"])),
                            MsgN("enregistrements calendrier", Count(b["calendrier_feries"]))}]

\* load_data(df, table_name): to_sql, the count read back, then to_csv; a
\* write that raises leaves what was written before it
load_data(df, nom, b, f, panne) ==
    IF panne = "to_sql"
    THEN [base |-> b, fichiers |-> f, issue |-> "exception",
          messages |-> {Msg("Traceback (most recent call last)")}]
    ELSE LET b2 == [b EXCEPT ![nom] = ToSqlReplace(@, df)]
             lu == MsgN("enregistrements chargés", Count(b2[nom]))
         IN  IF panne = "to_csv"
             THEN [base |-> b2, fichiers |-> f, issue |-> "exception",
                   messages |-> {lu, Msg("Traceback (most recent call last)")}]
             ELSE [base |-> b2, fichiers |-> [f EXCEPT ![nom] = ToCsv(@, df)],
                   issue |-> "ok",
                   messages |-> {lu, Msg("Export CSV")}]

\* the tables a run can find in the database
HeuresStock == 0..1

ConsoStock == { [datetime |-> h, mw_conso |-> 45000] : h \in HeuresStock }

MeteoStock ==
    { [datetime |-> h, temperature |-> Fix(10), vent |-> Fix(20), ensoleillement |-> Fix(50)] :
        h \in HeuresStock }

CalendrierStock ==
    { [datetime |-> h, date |-> h \div HeuresParJour, est_ferie |-> FALSE,
       est_vacances |-> FALSE, nom_ferie |-> ""] : h \in HeuresStock }

\* a fused table left by an earlier run on other data
AncienEnrichi ==
    <<[datetime |-> 5, mw_conso |-> 57000, temperature |-> Fix(10), vent |-> Fix(20),
       ensoleillement |-> Fix(50), est_ferie |-> 0, est_vacances |-> 0, nom_ferie |-> "",
       heure |-> 5, jour_semaine |-> 3, mois |-> 1, jour_mois |-> 1, est_weekend |-> 0]>>

Stockees(tables) == {Absente} \cup {Val(t) : t \in tables}

InitPipeline ==
    /\ script = "etl_fusion_donnees"
    /\ ServicesAuRepos
    /\ etape = "debut"
    /\ \E c \in Stockees(Tables(ConsoStock, MaxStock)),
          m \in Stockees({t \in Tables(MeteoStock, Cardinality(HeuresStock)) : UniqueDatetime(t)}),
          k \in Stockees({t \in Tables(CalendrierStock, Cardinality(HeuresStock)) :
                            OrderedByDatetime(t) /\ UniqueDatetime(t)}),
          e \in Stockees({AncienEnrichi}) :
             /\ base = [n \in NomsTables |->
                          CASE n = "consommation" -> c
                            [] n = "meteo" -> m
                            [] n = "calendrier_feries" -> k
                            [] OTHER -> e]
             /\ fichiers = [n \in NomsTables |-> IF n = Enrichi THEN e ELSE Absente]
    /\ code_sortie = NaN
    /\ messages = {}
    /\ executions = 1
    /\ df_meteo = <<>>
    /\ FusionAuRepos
    /\ NettoyageAuRepos
    /\ CalendrierAuRepos

\* run_etl_pipeline, lines 216-225, and __main__: extract_data(); without
\* the three tables the run prints what to execute and exits with 1
ExtractData ==
    /\ script = "etl_fusion_donnees"
    /\ etape = "debut"
    /\ LET r == extract_data(base)
       IN  CASE r.issue = "ok" ->
                  /\ df_conso' = r.conso
                  /\ df_meteo' = r.meteo
                  /\ df_calendrier' = r.calendrier
                  /\ messages' = messages \cup r.messages
                  /\ etape' = "extrait"
                  /\ UNCHANGED code_sortie
             [] r.issue = "None" ->
                  /\ messages' = messages \cup r.messages
                                   \cup {Msg("ERREUR: Données source manquantes"),
                                         Msg("1. python src/create_dataset.py"),
                                         Msg("2. python src/collect_meteo.py"),
                                         Msg("3. python src/load_jours_feries.py")}
                  /\ etape' = "termine"
                  /\ code_sortie' = Val(1)
                  /\ UNCHANGED <<df_conso, df_meteo, df_calendrier>>
             [] r.issue = "exception" ->
                  /\ messages' = messages \cup r.messages
                  /\ etape' = "termine"
                  /\ code_sortie' = Val(1)
                  /\ UNCHANGED <<df_conso, df_meteo, df_calendrier>>
    /\ UNCHANGED <<script, postgres, varsApi, varsNettoyage, varsCalendrier, df_enrichi, lignes_supprimees,
                   base, fichiers, executions>>

\* run_etl_pipeline, lines 230-237, and __main__: load_data(df_enrichi), then
\* exit(0); an exception of load_data ends the process with 1
LoadData ==
    /\ script = "etl_fusion_donnees"
    /\ etape = "transforme"
    /\ \E panne \in Pannes :
          LET r == load_data(df_enrichi, Enrichi, base, fichiers, panne)
          IN  /\ base' = r.base
              /\ fichiers' = r.fichiers
              /\ messages' = messages \cup r.messages
                               \cup (IF r.issue = "ok"
                                     THEN {Msg("Pipeline ETL termine avec succes")} ELSE {})
              /\ code_sortie' = IF r.issue = "ok" THEN Val(0) ELSE Val(1)
    /\ etape' = "termine"
    /\ UNCHANGED <<script, postgres, varsApi, df_meteo, varsNettoyage, varsCalendrier, varsFusion, executions>>

\* python src/etl_fusion_donnees.py started again
Relancer ==
    /\ script \in {"etl_fusion_donnees", "import_to_postgres"}
    /\ etape = "termine"
    /\ executions < MaxExecutions
    /\ executions' = executions + 1
    /\ etape' = "debut"
    /\ code_sortie' = NaN
    /\ df_conso' = <<>>
    /\ df_meteo' = <<>>
    /\ df_calendrier' = <<>>
    /\ df_enrichi' = <<>>
    /\ lignes_supprimees' = NaN
    /\ UNCHANGED <<script, postgres, varsApi, varsNettoyage, varsCalendrier, base, fichiers, messages>>

NextPipeline == ExtractData \/ TransformData \/ LoadData \/ Relancer

SpecPipeline == InitPipeline /\ [][NextPipeline]_vars

----------------------------------------------------------------------------
(* Claims about the pipeline run (checked under SpecPipeline) *)

Termine == script = "etl_fusion_donnees" /\ etape = "termine"

\* C13: after load_data has returned, the table conso_meteo_calendrier_enrichi
\* holds exactly the rows of the fused table, whatever it held before (nothing,
\* another table, the same table written by the previous run), and the count
\* read back is the number of rows of the fused table, not a multiple of it.
C13_ReplaceIdempotent ==
    (Termine /\ code_sortie = Val(0)) =>
        /\ base[Enrichi] = Val(df_enrichi)
        /\ Count(base[Enrichi]) = Len(df_enrichi)
        /\ \A m \in messages :
              (m[1] = executions /\ m[2] = "enregistrements chargés") => m[3] = Len(df_enrichi)
        /\ MsgN("enregistrements chargés", Len(df_enrichi)) \in messages

\* C13 witness: the pipeline succeeded twice on the same data and persisted
\* the same two fused rows both times; the second count read back is 2.
C13_Witness ==
    /\ Termine
    /\ executions = 2
    /\ <<1, "Pipeline ETL termine avec succes", 0>> \in messages
    /\ <<1, "enregistrements chargés", 2>> \in messages
    /\ <<2, "Pipeline ETL termine avec succes", 0>> \in messages
    /\ <<2, "enregistrements chargés", 2>> \in messages
    /\ Len(df_enrichi) = 2
    /\ Count(base[Enrichi]) = 2

\* C14: whenever load_data has returned or failed, the table
\* conso_meteo_calendrier_enrichi and the export
\* data/conso_meteo_calendrier_enrichi.csv hold the same rows (both those of
\* before the call or both those just persisted).
C14_SinkAllOrNothing ==
    Termine => base[Enrichi] = fichiers[Enrichi]

\* C15: the fused table and its export are written only by a run that has
\* extracted the three tables and transformed them, and a step that writes
\* either of them ends the run with success: no run that ends in failure has
\* written anything.
C15_CompleteOrNothing ==
    [][(base' # base \/ fichiers' # fichiers) =>
          (script = "etl_fusion_donnees" /\ etape = "transforme" /\ code_sortie' = Val(0))]_vars

\* the printed lines that name the script producing a table
Nomme ==
    [consommation      |-> {"1. python src/create_dataset.py"},
     meteo             |-> {"Exécuter d'abord: python src/collect_meteo.py",
                            "2. python src/collect_meteo.py"},
     calendrier_feries |-> {"Exécuter d'abord: python src/load_jours_feries.py",
                            "3. python src/load_jours_feries.py"}]

\* C16: a run started while consommation, meteo or calendrier_feries does not
\* exist ends at the extraction with exit code 1, has printed a line naming
\* the script that produces a missing table, and has written nothing.
C16_MissingUpstreamTable ==
    [][(script = "etl_fusion_donnees" /\ etape = "debut"
           /\ \E n \in Prerequis : IsNull(base[n])) =>
          /\ etape' = "termine"
          /\ code_sortie' = Val(1)
          /\ base' = base
          /\ fichiers' = fichiers
          /\ \E n \in Prerequis :
                /\ IsNull(base[n])
                /\ \E t \in Nomme[n] : <<executions, t, 0>> \in messages']_vars

\* C17: a run whose consommation and meteo tables share no timestamp ends
\* with exit code 1 and does not persist an empty fused table.
C17_EmptyIntersectionAborts ==
    (/\ Termine
     /\ \A n \in Prerequis : ~IsNull(base[n])
     /\ Datetimes(Num(base["consommation"])) \cap Datetimes(Num(base["meteo"])) = {}) =>
        /\ code_sortie = Val(1)
        /\ base[Enrichi] # Val(<<>>)

----------------------------------------------------------------------------
(* collect_meteo.py: get_meteo_data, validate_meteo_data, save_to_csv,     *)
(* save_to_database                                                        *)

\* what requests.get(url, params) meets: a 2xx answer with the hourly
\* arrays, a connection error, a non-2xx status, a 2xx answer whose body
\* lacks the hourly arrays
Reponses == {"200", "ConnectionError", "HTTPError", "KeyError"}

\* the hourly arrays of a 2xx answer, one record per hour in the order of
\* the answer (null: NaN)
HourlyReadings ==
    { [temperature_2m |-> Fix(10), windspeed_10m |-> Fix(20),  cloudcover |-> Fix(50)],
      [temperature_2m |-> NaN,     windspeed_10m |-> NaN,      cloudcover |-> NaN],
      [temperature_2m |-> Fix(60), windspeed_10m |-> Fix(300), cloudcover |-> Fix(-50)] }

Hourly ==
    {t \in Tables({ [time |-> h, temperature_2m |-> r.temperature_2m,
                     windspeed_10m |-> r.windspeed_10m, cloudcover |-> r.cloudcover] :
                       h \in HeuresBrutes, r \in HourlyReadings }, Cardinality(HeuresBrutes)) :
        \A i \in 1..(Len(t) - 1) : t[i].time < t[i + 1].time}

\* lines 51-64: the table built from the hourly arrays
FromHourly(hourly) ==
    Tuple([i \in 1..Len(hourly) |->
              [datetime       |-> hourly[i].time,
               temperature    |-> hourly[i].temperature_2m,
               vent           |-> hourly[i].windspeed_10m,
               ensoleillement |-> IF IsNull(hourly[i].cloudcover) THEN NaN
                                  ELSE Val(100 * Scale - Num(hourly[i].cloudcover))]])

\* an empty table returned where the call failed
get_meteo_data_vide(reponse, hourly) ==
    IF reponse = "200"
    THEN [df |-> Val(FromHourly(hourly)), issue |-> "ok", messages |-> {}]
    ELSE [df |-> Val(<<>>), issue |-> "ok", messages |-> {Msg("Erreur API Open-Meteo")}]

\* get_meteo_data(start_date, end_date): the table, or None when requests
\* raised a RequestException (connection error, raise_for_status on a
\* non-2xx status); any other exception leaves the function
get_meteo_data(reponse, hourly) ==
    CASE reponse = "200" ->
            [df |-> Val(FromHourly(hourly)), issue |-> "ok",
             messages |-> {MsgN("enregistrements météo collectés", Len(hourly))}]
      [] reponse \in {"ConnectionError", "HTTPError"} ->
            [df |-> NaN, issue |-> "None", messages |-> {Msg("Erreur API Open-Meteo")}]
      [] reponse = "KeyError" ->
            [df |-> NaN, issue |-> "exception",
             messages |-> {Msg("Traceback (most recent call last)")}]

\* a weather table left by an earlier collection
AncienMeteo ==
    <<[datetime |-> 5, temperature |-> Fix(10), vent |-> Fix(20), ensoleillement |-> Fix(50)]>>

InitCollecte ==
    /\ script = "collect_meteo"
    /\ ServicesAuRepos
    /\ etape = "debut"
    /\ \E m \in Stockees({AncienMeteo}) :
          /\ base = [n \in NomsTables |-> IF n = "meteo" THEN m ELSE Absente]
          /\ fichiers = [n \in NomsTables |-> IF n = "meteo" THEN m ELSE Absente]
    /\ code_sortie = NaN
    /\ messages = {}
    /\ executions = 1
    /\ df_meteo = <<>>
    /\ NettoyageAuRepos
    /\ CalendrierAuRepos
    /\ FusionAuRepos

\* __main__, lines 167-169 and 187-189: get_meteo_data; on None the script
\* prints the failure and exits with 1
GetMeteoData ==
    /\ script = "collect_meteo"
    /\ etape = "debut"
    /\ \E reponse \in Reponses, hourly \in Hourly :
          LET r == get_meteo_data(reponse, hourly)
          IN  CASE r.issue = "ok" ->
                     /\ df_meteo' = Num(r.df)
                     /\ messages' = messages \cup r.messages
                     /\ etape' = "collecte"
                     /\ UNCHANGED code_sortie
                [] r.issue = "None" ->
                     /\ messages' = messages \cup r.messages
                                      \cup {Msg("Échec de la collecte météo")}
                     /\ etape' = "termine"
                     /\ code_sortie' = Val(1)
                     /\ UNCHANGED df_meteo
                [] r.issue = "exception" ->
                     /\ messages' = messages \cup r.messages
                     /\ etape' = "termine"
                     /\ code_sortie' = Val(1)
                     /\ UNCHANGED df_meteo
    /\ UNCHANGED <<script, postgres, varsApi, varsNettoyage, varsCalendrier, varsFusion, base, fichiers, executions>>

\* __main__, lines 181-186: save_to_csv, then save_to_database
SauvegarderMeteo ==
    /\ script = "collect_meteo"
    /\ etape = "valide"
    /\ \E panne \in Pannes :
          /\ fichiers' = IF panne = "to_csv" THEN fichiers
                         ELSE [fichiers EXCEPT !["meteo"] = ToCsv(@, df_valide)]
          /\ base' = IF panne = "aucune"
                     THEN [base EXCEPT !["meteo"] = ToSqlReplace(@, df_valide)]
                     ELSE base
          /\ messages' = messages \cup
                IF panne = "aucune"
                THEN {Msg("Sauvegardé"), MsgN("enregistrements météo en base", Len(df_valide)),
                      Msg("Collecte terminée")}
                ELSE IF panne = "to_sql"
                THEN {Msg("Sauvegardé"), Msg("Traceback (most recent call last)")}
                ELSE {Msg("Traceback (most recent call last)")}
          /\ code_sortie' = IF panne = "aucune" THEN Val(0) ELSE Val(1)
    /\ etape' = "termine"
    /\ UNCHANGED <<script, postgres, varsApi, df_meteo, varsNettoyage, varsCalendrier, varsFusion, executions>>

NextCollecte == GetMeteoData \/ ValidateMeteoData \/ SauvegarderMeteo

SpecCollecte == InitCollecte /\ [][NextCollecte]_vars

----------------------------------------------------------------------------
(* Claims about the weather collection (checked under SpecCollecte) *)

\* C18: when the call to the weather API fails or answers with a non-success
\* status, get_meteo_data returns None, never a table, and the script ends at
\* once with exit code 1, the table meteo and data/meteo.csv as they were.
C18_SourceUnavailable ==
    [][(script = "collect_meteo" /\ etape = "debut"
           /\ Msg("Erreur API Open-Meteo") \in messages') =>
          /\ \A reponse \in {"ConnectionError", "HTTPError"} : \A hourly \in Hourly :
                get_meteo_data(reponse, hourly).df = NaN
          /\ etape' = "termine"
          /\ code_sortie' = Val(1)
          /\ Msg("Échec de la collecte météo") \in messages'
          /\ base' = base
          /\ fichiers' = fichiers]_vars

\* C18 witness: the call failed while an earlier collection was stored; the
\* script has ended with 1 and the stored table and file are the earlier ones.
C18_Witness ==
    /\ script = "collect_meteo"
    /\ etape = "termine"
    /\ <<1, "Erreur API Open-Meteo", 0>> \in messages
    /\ <<1, "Échec de la collecte météo", 0>> \in messages
    /\ code_sortie = Val(1)
    /\ base["meteo"] = Val(AncienMeteo)
    /\ fichiers["meteo"] = Val(AncienMeteo)

----------------------------------------------------------------------------
(* load_jours_feries.py: enrich_with_vacances_scolaires                    *)

\* 2026-12-31, the last day of the calendar built by __main__ (line 206),
\* counted from 2026-01-01
DernierJour == 364

RECURSIVE DaysBeforeMonth(_, _)
DaysBeforeMonth(y, m) ==
    IF m = 1 THEN 0 ELSE DaysBeforeMonth(y, m - 1) + DaysInMonth(y, m - 1)

RECURSIVE DaysBeforeYear(_)
DaysBeforeYear(y) ==
    IF y <= EpochYear THEN 0
    ELSE DaysBeforeYear(y - 1) + (IF IsLeap(y - 1) THEN 366 ELSE 365)

\* pd.to_datetime("YYYY-MM-DD") as a day counted from 2026-01-01
ToDay(date) ==
    DaysBeforeYear(date.year) + DaysBeforeMonth(date.year, date.month) + date.day - 1

Date(y, m, d) == [year |-> y, month |-> m, day |-> d]

\* lines 56-62: the vacation periods (start, end, label)
vacances ==
    << [start |-> Date(2026, 2, 21),  end |-> Date(2026, 3, 8),   nom |-> "Vacances d'hiver"],
       [start |-> Date(2026, 4, 18),  end |-> Date(2026, 5, 3),   nom |-> "Vacances de printemps"],
       [start |-> Date(2026, 7, 4),   end |-> Date(2026, 8, 31),  nom |-> "Vacances d'été"],
       [start |-> Date(2026, 10, 24), end |-> Date(2026, 11, 8),  nom |-> "Vacances de la Toussaint"],
       [start |-> Date(2026, 12, 19), end |-> Date(2026, 1, 3),   nom |-> "Vacances de Noël"] >>

\* pd.date_range(start, end, freq="D"): every day from start to end, none
\* when end is before start
DateRangeDays(start, end) ==
    Tuple([i \in 1..(IF end >= start THEN end - start + 1 ELSE 0) |-> start + i - 1])

\* lines 64-73: one row per day of every period, from period k on
RECURSIVE VacancesRows(_)
VacancesRows(k) ==
    IF k > Len(vacances) THEN <<>>
    ELSE LET date_range == DateRangeDays(ToDay(vacances[k].start), ToDay(vacances[k].end))
         IN  Tuple([i \in 1..Len(date_range) |->
                       [date |-> date_range[i], nom_ferie |-> vacances[k].nom,
                        type |-> "vacances"]])
             \o VacancesRows(k + 1)

\* sort_values("date"): rows in increasing date, rows of one date in their
\* former order
SortByDate(df) ==
    LET n == Len(df)
        rank == Tuple([i \in 1..n |->
                          1 + Cardinality({j \in 1..n :
                                             \/ df[j].date < df[i].date
                                             \/ (df[j].date = df[i].date /\ j < i)})])
    IN  Tuple([k \in 1..n |-> df[CHOOSE i \in 1..n : rank[i] = k]])

\* enrich_with_vacances_scolaires(df_feries)
enrich_with_vacances_scolaires(feries) == SortByDate(feries \o VacancesRows(1))

\* the holidays read from data/jours_feries_2026.csv
JourDeLAn == [date |-> ToDay(Date(2026, 1, 1)), nom_ferie |-> "Jour de l'an", type |-> "fixe"]
Noel == [date |-> ToDay(Date(2026, 12, 25)), nom_ferie |-> "Noël", type |-> "fixe"]

JoursFeriesCsv == { <<>>, <<JourDeLAn>>, <<JourDeLAn, Noel>> }

\* the calendar is built for one or two days at a time, anywhere in 2026
InitVacances ==
    /\ script = "load_jours_feries"
    /\ ServicesAuRepos
    /\ etape = "lu"
    /\ df_feries \in JoursFeriesCsv
    /\ start_date \in 0..DernierJour
    /\ end_date \in {d \in {start_date, start_date + 1} : d <= DernierJour}
    /\ df_calendar = <<>>
    /\ df_final = <<>>
    /\ df_meteo = <<>>
    /\ NettoyageAuRepos
    /\ FusionAuRepos
    /\ StockageAuRepos

\* __main__, line 200
EnrichWithVacancesScolaires ==
    /\ script = "load_jours_feries"
    /\ etape = "lu"
    /\ df_feries' = enrich_with_vacances_scolaires(df_feries)
    /\ etape' = "charge"
    /\ UNCHANGED <<script, postgres, varsApi, df_meteo, varsNettoyage, varsFusion, varsStockage,
                   start_date, end_date, df_calendar, df_final>>

NextVacances == EnrichWithVacancesScolaires \/ CreateHourlyCalendar \/ MergeCalendarWithFeries

SpecVacances == InitVacances /\ [][NextVacances]_vars

----------------------------------------------------------------------------
(* Claims about the vacation periods (checked under SpecVacances) *)

\* C27: every listed period has start <= end and has given one vacances
\* event for each of its days, at least one; and every hour of the calendar
\* whose day lies in a listed period has est_vacances true.
C27_VacationPeriodsCovered ==
    Fusionne =>
        \A k \in 1..Len(vacances) :
            LET debut == ToDay(vacances[k].start)
                fin   == ToDay(vacances[k].end)
                rows  == {i \in 1..Len(df_feries) :
                            df_feries[i].type = "vacances"
                              /\ df_feries[i].nom_ferie = vacances[k].nom}
            IN  /\ debut <= fin
                /\ rows # {}
                /\ \A d \in debut..fin :
                      Cardinality({i \in rows : df_feries[i].date = d}) = 1
                /\ \A i \in 1..Len(df_final) :
                      (df_final[i].date \in debut..fin) => df_final[i].est_vacances

----------------------------------------------------------------------------
(* scrape_prix_electricite.py: scrape_prix_spot_simule                     *)

\* the days the price adapter is asked for: Thursday 2026-01-01 to Sunday
\* 2026-01-04
JoursPrix == 0..3

\* how end_date is written: a calendar day as documented, or the day with
\* the time 23:00:00 as __main__ writes it (line 182)
FormesFin == {"YYYY-MM-DD", "YYYY-MM-DD 23:00:00"}

\* pd.date_range(start=start_date, end=end_date, freq="h"): a string without
\* time is midnight of its day
DateRangeHours(start, end, forme) ==
    LET first == HeuresParJour * start
        last  == HeuresParJour * end + (IF forme = "YYYY-MM-DD" THEN 0 ELSE 23)
    IN  Tuple([i \in 1..(IF last >= first THEN last - first + 1 ELSE 0) |-> first + i - 1])

\* states of numpy's global generator when the function is called
Graines == {1, 2, 42}

\* np.random.normal(0, 10): the k-th draw of a generator seeded with etat, a
\* whole number of EUR/MWh
Normal(etat, k) == (((etat * 7 + k * 5) % 9) - 4) * 5 * Scale

\* Series.round(2), in units of 1/Scale
Round2(x) ==
    LET centiemes == (2 * 100 * x + Scale) \div (2 * Scale)
    IN  (centiemes * Scale) \div 100

\* lines 38-43 and 51-63: the price of the hour dt, k-th of the range
PrixFinal(dt, k, etat) ==
    LET ts         == Timestamp(dt)
        prix_base  == 80 * Scale
        prix_heure == prix_base + (IF 8 <= ts.hour /\ ts.hour <= 20
                                   THEN 20 * Scale ELSE 10 * Scale)
        weekend    == IF DayOfWeek(ts.year, ts.month, ts.day) >= 5
                      THEN (prix_heure * 85) \div 100 ELSE prix_heure
        variation  == Normal(etat, k)
    IN  IF weekend + variation >= 30 * Scale THEN weekend + variation ELSE 30 * Scale

\* the generator left in the state the caller had
scrape_prix_sans_graine(start, end, forme, etat) ==
    LET date_range == DateRangeHours(start, end, forme)
    IN  Tuple([k \in 1..Len(date_range) |->
                  [datetime |-> date_range[k],
                   prix_spot_eur_mwh |-> Val(Round2(PrixFinal(date_range[k], k, etat)))]])

\* scrape_prix_spot_simule(start_date, end_date), called with numpy's
\* generator in the state etat: np.random.seed(42) (line 48) resets it
scrape_prix_spot_simule(start, end, forme, etat) ==
    LET date_range == DateRangeHours(start, end, forme)
        seed       == 42
    IN  Tuple([k \in 1..Len(date_range) |->
                  [datetime |-> date_range[k],
                   prix_spot_eur_mwh |-> Val(Round2(PrixFinal(date_range[k], k, seed)))]])

\* a price table left by an earlier run
AncienPrix == <<[datetime |-> 5, prix_spot_eur_mwh |-> Fix(90)]>>

Prix == "prix_spot_electricite"

InitPrix ==
    /\ script = "scrape_prix"
    /\ ServicesAuRepos
    /\ etape = "debut"
    /\ start_date \in JoursPrix
    /\ end_date \in {d \in JoursPrix : start_date <= d}
    /\ \E p \in Stockees({AncienPrix}) :
          /\ base = [n \in NomsTables |-> IF n = Prix THEN p ELSE Absente]
          /\ fichiers = [n \in NomsTables |-> IF n = Prix THEN p ELSE Absente]
    /\ code_sortie = NaN
    /\ messages = {}
    /\ executions = 1
    /\ df_meteo = <<>>
    /\ df_feries = <<>>
    /\ df_calendar = <<>>
    /\ df_final = <<>>
    /\ NettoyageAuRepos
    /\ FusionAuRepos

\* __main__, lines 181-188: scrape_prix_spot_simule(start, end), which
\* prints the two dates as given
ScrapePrixSpotSimule ==
    /\ script = "scrape_prix"
    /\ etape = "debut"
    /\ \E forme \in FormesFin, etat \in Graines :
          /\ df_prix' = scrape_prix_spot_simule(start_date, end_date, forme, etat)
          /\ messages' = messages \cup {Msg(forme), MsgN("prix scrappe", Len(df_prix'))}
    /\ etape' = "collecte"
    /\ UNCHANGED <<script, postgres, varsApi, df_meteo, df_valide, doublons, varsCalendrier, varsFusion,
                   base, fichiers, code_sortie, executions>>

\* __main__, lines 203-210: save_to_csv, then save_to_database
SauvegarderPrix ==
    /\ script = "scrape_prix"
    /\ etape = "valide"
    /\ \E panne \in Pannes :
          /\ fichiers' = IF panne = "to_csv" THEN fichiers
                         ELSE [fichiers EXCEPT ![Prix] = ToCsv(@, df_valide)]
          /\ base' = IF panne = "aucune"
                     THEN [base EXCEPT ![Prix] = ToSqlReplace(@, df_valide)]
                     ELSE base
          /\ messages' = messages \cup
                IF panne = "aucune"
                THEN {Msg("Sauvegarde"), MsgN("enregistrements prix spot en base", Len(df_valide)),
                      Msg("Scrapping termine")}
                ELSE IF panne = "to_sql"
                THEN {Msg("Sauvegarde"), Msg("Traceback (most recent call last)")}
                ELSE {Msg("Traceback (most recent call last)")}
          /\ code_sortie' = IF panne = "aucune" THEN Val(0) ELSE Val(1)
    /\ etape' = "termine"
    /\ UNCHANGED <<script, postgres, varsApi, df_meteo, varsNettoyage, varsCalendrier, varsFusion, executions>>

NextPrix == ScrapePrixSpotSimule \/ ValidatePrixData \/ SauvegarderPrix

SpecPrix == InitPrix /\ [][NextPrix]_vars

----------------------------------------------------------------------------
(* Claims about the price adapter (checked under SpecPrix) *)

Scrappe == script = "scrape_prix" /\ etape = "collecte"

\* how the end date of this run was written
FormeFin == CHOOSE f \in FormesFin : Msg(f) \in messages

\* C25: called with start_date and end_date written as calendar days,
\* scrape_prix_spot_simule returns one row per hour from start_date 00:00 to
\* end_date 23:00, 24 rows for every day of the range, the hours
\* create_hourly_calendar gives for that range.
C25_PriceAdapterCoversRange ==
    (Scrappe /\ FormeFin = "YYYY-MM-DD") =>
        /\ Len(df_prix) = 24 * (end_date - start_date + 1)
        /\ Column(df_prix, "datetime")
              = Column(create_hourly_calendar(start_date, end_date), "datetime")

\* C26 as stated: the table returned by scrape_prix_spot_simule depends on
\* the state of the random generator at the call: the same dates can give
\* another table than the one this call returned.
C26_PriceAdapterNotIdempotent ==
    (Scrappe /\ Len(df_prix) > 0) =>
        \E etat \in Graines :
            scrape_prix_spot_simule(start_date, end_date, FormeFin, etat) # df_prix

\* C26 amended: whatever the state of the random generator at the call,
\* scrape_prix_spot_simule returns for the same dates the same table, the
\* one drawn from the generator seeded with 42; the draws do vary from hour
\* to hour.
C26_PriceAdapterDeterministic ==
    Scrappe =>
        /\ \A etat \in Graines :
              scrape_prix_spot_simule(start_date, end_date, FormeFin, etat) = df_prix
        /\ df_prix = scrape_prix_sans_graine(start_date, end_date, FormeFin, 42)

\* C26 witness: a range of two days was scraped, with prices that follow
\* the draws (the first two hours of the night differ).
C26_Witness ==
    /\ Scrappe
    /\ end_date = start_date + 1
    /\ Len(df_prix) >= 25
    /\ df_prix[1].prix_spot_eur_mwh # df_prix[2].prix_spot_eur_mwh
    /\ \E etat \in Graines :
          scrape_prix_sans_graine(start_date, end_date, FormeFin, etat) # df_prix

----------------------------------------------------------------------------
(* import_to_postgres.py *)

\* lines 39-44: the columns the import adds when the source lacks them;
\* pd.Timestamp.now() is the time of the run
AvecColonnes(df, maintenant) ==
    Tuple([i \in 1..Len(df) |->
              df[i] @@ [source |-> "SYNTHETIC", region |-> "France", created_at |-> maintenant]])

\* df.to_sql('consommation', postgres_engine, if_exists='append', index=False,
\* method='multi', chunksize=100): the rows are added after those the table
\* holds; the table is created when it does not exist
ToSqlAppendMulti(ancien, df) == IF IsNull(ancien) THEN Val(df) ELSE Val(Num(ancien) \o df)

\* SELECT datetime, COUNT(*) as nb FROM consommation GROUP BY datetime
\* HAVING COUNT(*) > 1: the timestamps held more than once
Duplicates(table) ==
    {d \in Datetimes(table) : Cardinality(RowsAt(table, d)) > 1}

\* where the import can raise: the PostgreSQL server refuses the connection
PannesImport == {"aucune", "to_sql"}

\* where the verification can raise: the connection is lost after the import
PannesVerify == {"aucune", "read_sql_query"}

\* the SQLite tables the import starts from: no timestamp twice
SourcesImport == {t \in Tables(ConsoStock, MaxStock) : UniqueDatetime(t)}

InitImport ==
    /\ script = "import_to_postgres"
    /\ ServicesAuRepos
    /\ etape = "debut"
    /\ \E c \in Stockees(SourcesImport) :
          base = [n \in NomsTables |-> IF n = "consommation" THEN c ELSE Absente]
    /\ fichiers = [n \in NomsTables |-> Absente]
    /\ code_sortie = NaN
    /\ messages = {}
    /\ executions = 1
    /\ df_meteo = <<>>
    /\ NettoyageAuRepos
    /\ CalendrierAuRepos
    /\ FusionAuRepos

\* import_consommation(), lines 31-65, and the except of __main__
ImportConsommation ==
    /\ script = "import_to_postgres"
    /\ etape = "debut"
    /\ \E panne \in PannesImport :
          IF IsNull(base["consommation"])
          THEN /\ messages' = messages \cup {Msg("Lecture des donnees SQLite"), Msg("ERREUR")}
               /\ code_sortie' = Val(1)
               /\ etape' = "termine"
               /\ UNCHANGED <<df_conso, postgres>>
          ELSE /\ df_conso' = AvecColonnes(Num(base["consommation"]), executions)
               /\ IF panne = "to_sql"
                  THEN /\ messages' = messages \cup
                             {Msg("Lecture des donnees SQLite"), Msg("ERREUR")}
                       /\ code_sortie' = Val(1)
                       /\ etape' = "termine"
                       /\ UNCHANGED postgres
                  ELSE /\ postgres' = ToSqlAppendMulti(postgres, df_conso')
                       /\ messages' = messages \cup
                             {Msg("Lecture des donnees SQLite"), Msg("Import termine avec succes"),
                              MsgN("Total en base PostgreSQL", Count(postgres'))}
                       /\ etape' = "importe"
                       /\ UNCHANGED code_sortie
    /\ UNCHANGED <<script, df_meteo, varsNettoyage, varsCalendrier, df_calendrier, df_enrichi,
                   lignes_supprimees, base, fichiers, executions, varsApi>>

\* import_previsions() (the SQLite base has no table prevision) and
\* verify_import(), lines 91-124, then the end of __main__
VerifyImport ==
    /\ script = "import_to_postgres"
    /\ etape = "importe"
    /\ \E panne \in PannesVerify :
          IF panne = "read_sql_query"
          THEN /\ messages' = messages \cup {Msg("Verification de l'import"), Msg("ERREUR")}
               /\ code_sortie' = Val(1)
          ELSE /\ LET duplicates == Duplicates(Num(postgres))
                  IN  messages' = messages \cup
                         {Msg("Verification de l'import"),
                          MsgN("Total mesures", Count(postgres)),
                          IF Cardinality(duplicates) > 0
                          THEN MsgN("ATTENTION: doublons detectes", Cardinality(duplicates))
                          ELSE Msg("Aucun doublon detecte"),
                          Msg("=== Import termine ===")}
               /\ code_sortie' = Val(0)
    /\ etape' = "termine"
    /\ UNCHANGED <<script, df_meteo, varsNettoyage, varsCalendrier, varsFusion, base, fichiers,
                   executions, postgres, varsApi>>

NextImport == ImportConsommation \/ VerifyImport \/ Relancer

SpecImport == InitImport /\ [][NextImport]_vars

----------------------------------------------------------------------------
(* Claims about the import (checked under SpecImport) *)

\* C30: whatever the number of runs of import_consommation from a source
\* table without repeated timestamps, the PostgreSQL table consommation
\* holds at most one row per datetime, and verify_import reports no
\* duplicate.
C30_ImportKeepsTimestampsUnique ==
    script = "import_to_postgres" =>
        /\ ~IsNull(postgres) => UniqueDatetime(Num(postgres))
        /\ \A m \in messages : m[2] # "ATTENTION: doublons detectes"

----------------------------------------------------------------------------
(* api/main.py: the handlers *)

\* most requests in flight at the same time
MaxRequetes == 2

\* conso(limit: Optional[int] = 24)
LimiteDefaut == 24

\* the most rows /conso reads
LimiteMax == 1000

\* a response of the application, or the exception raised in its place
Reponse(status, detail, body) ==
    [exception |-> "", status_code |-> status, detail |-> detail, body |-> body]

HTTPException(status, detail) ==
    [exception |-> "HTTPException", status_code |-> status, detail |-> Val(detail),
     body |-> <<>>]

Leve(type) == [exception |-> type, status_code |-> 0, detail |-> NaN, body |-> <<>>]

\* where a handler can fail: the database cannot be read, or the rows /conso
\* returned cannot be encoded as JSON (a NaN among them)
PannesApi == {"aucune", "read_sql", "encodage"}

\* pd.read_sql raises: no table consommation, or the database is unreachable
LectureImpossible(table, panne) == IsNull(table) \/ panne = "read_sql"

\* SELECT * FROM consommation ORDER BY datetime DESC LIMIT limit
SelectDescLimit(df, limit) ==
    LET n    == Len(df)
        dt   == Column(df, "datetime")
        rang == Tuple([i \in 1..n |->
                         1 + Cardinality({j \in 1..n : \/ dt[j] > dt[i]
                                                       \/ dt[j] = dt[i] /\ j < i})])
    IN  Tuple([k \in 1..(IF limit < n THEN limit ELSE n) |->
                  df[CHOOSE i \in 1..n : rang[i] = k]])

\* lines 210-212 without the ceiling
SansPlafond(limit) == limit

\* lines 210-212
Plafonner(limit) == IF limit > LimiteMax THEN LimiteMax ELSE limit

\* the try block of conso, lines 204-218
conso_try(limit, table, panne) ==
    IF limit <= 0
    THEN HTTPException(400, "La limite doit etre superieure a 0")
    ELSE IF LectureImpossible(table, panne)
    THEN Leve("OperationalError")
    ELSE Reponse(200, NaN, SelectDescLimit(Num(table), Plafonner(limit)))

\* conso with the clause except HTTPException left out: an HTTPException is
\* an Exception
conso_sans_reraise(limit, table, panne) ==
    LET r == conso_try(limit, table, panne)
    IN  IF r.exception # ""
        THEN HTTPException(500, "Erreur lors de la recuperation des donnees")
        ELSE r

\* conso(limit), lines 200-228
conso(limit, table, panne) ==
    LET r == conso_try(limit, table, panne)
    IN  IF r.exception = "HTTPException" THEN r
        ELSE IF r.exception # ""
        THEN HTTPException(500, "Erreur lors de la recuperation des donnees")
        ELSE r

\* root(), lines 182-197
root(table, panne) ==
    IF LectureImpossible(table, panne)
    THEN HTTPException(500, "Erreur de connexion a la base de donnees")
    ELSE Reponse(200, NaN, <<[status |-> "OK", lignes |-> Count(table)]>>)

RECURSIVE SumConso(_, _, _)
SumConso(df, lo, hi) ==
    IF lo > hi THEN 0
    ELSE IF lo = hi THEN df[lo].mw_conso
    ELSE LET mid == (lo + hi) \div 2
         IN  SumConso(df, lo, mid) + SumConso(df, mid + 1, hi)

\* Python's round(x) of x = num / den: to the nearest integer, halves to even
RoundHalfEven(num, den) ==
    LET q == num \div den
        r == num % den
    IN  IF 2 * r < den THEN q
        ELSE IF 2 * r > den THEN q + 1
        ELSE IF q % 2 = 0 THEN q ELSE q + 1

\* stats(), lines 231-253: on an empty table the aggregates are NULL and
\* round raises
stats(table, panne) ==
    IF LectureImpossible(table, panne) \/ Count(table) = 0
    THEN HTTPException(500, "Erreur lors du calcul des statistiques")
    ELSE LET df == Num(table)
             v  == {df[i].mw_conso : i \in 1..Len(df)}
         IN  Reponse(200, NaN,
                     <<[moyenne |-> RoundHalfEven(SumConso(df, 1, Len(df)), Len(df)),
                        pic     |-> CHOOSE x \in v : \A y \in v : y <= x,
                        creux   |-> CHOOSE x \in v : \A y \in v : x <= y]>>)

\* metrics(), lines 169-179: the response carries the exposition text
metrics(table, panne) == Reponse(200, NaN, <<>>)

Chemins == {"/metrics", "/", "/conso", "/stats"}

\* the query parameter limit of /conso: not given, or an integer
LimitesDemandees == {NaN} \cup {Val(n) : n \in {-5, 0, 1, 10, LimiteMax, LimiteMax + 1}}

LimitParam(limit) == IF IsNull(limit) THEN LimiteDefaut ELSE Num(limit)

\* the route called for the request, and what FastAPI makes of its result:
\* an HTTPException becomes the response {"detail": ...} with its status;
\* rows that cannot be encoded raise
call_next(path, limit, table, panne) ==
    LET r == IF path = "/conso" THEN conso(LimitParam(limit), table, panne)
             ELSE IF path = "/" THEN root(table, panne)
             ELSE IF path = "/stats" THEN stats(table, panne)
             ELSE metrics(table, panne)
    IN  IF r.exception = "HTTPException" THEN Reponse(r.status_code, r.detail, <<>>)
        ELSE IF panne = "encodage" /\ path = "/conso" /\ r.body # <<>> THEN Leve("ValueError")
        ELSE r

\* global_exception_handler, lines 152-166
global_exception_handler(exc) == Reponse(500, NaN, <<[error |-> "Erreur interne du serveur"]>>)

----------------------------------------------------------------------------
(* api/main.py: log_requests and the requests in flight *)

\* the gauge decremented only when call_next returns
SansFinally(gauge, issue) == IF issue.exception = "" THEN gauge - 1 ELSE gauge

\* finally: REQUEST_IN_PROGRESS.dec(), lines 148-149
Finally(gauge, issue) == gauge - 1

Libre == [pc |-> "libre", path |-> "", limit |-> NaN, issue |-> Leve("")]

\* rows of the table consommation the API reads
ConsoApi == <<[datetime |-> 0, mw_conso |-> 45000], [datetime |-> 1, mw_conso |-> 47000]>>

\* a table of more rows than LimiteMax, as SELECT * returns it
GrandeTable == Tuple([i \in 1..(LimiteMax + 2) |-> [datetime |-> i - 1, mw_conso |-> 45000]])

InitServeur ==
    /\ etape = "sert"
    /\ REQUEST_IN_PROGRESS = 0
    /\ DB_RECORDS = 0
    /\ postgres = Absente
    /\ fichiers = [n \in NomsTables |-> Absente]
    /\ code_sortie = NaN
    /\ messages = {}
    /\ executions = 1
    /\ df_meteo = <<>>
    /\ NettoyageAuRepos
    /\ CalendrierAuRepos
    /\ FusionAuRepos

\* the server with MaxRequetes connections
InitApi ==
    /\ script = "api"
    /\ InitServeur
    /\ requetes = [i \in 1..MaxRequetes |-> Libre]
    /\ \E c \in Stockees({<<>>, ConsoApi}) :
          base = [n \in NomsTables |-> IF n = "consommation" THEN c ELSE Absente]

\* the server answering one client, on a table of any size
InitConso ==
    /\ script = "api"
    /\ InitServeur
    /\ requetes = <<Libre>>
    /\ \E c \in Stockees({<<>>, ConsoApi, GrandeTable}) :
          base = [n \in NomsTables |-> IF n = "consommation" THEN c ELSE Absente]

\* log_requests, lines 79-101: a request arrives and the middleware runs up
\* to await call_next
Arrivee ==
    \E i \in DOMAIN requetes :
        /\ script = "api"
        /\ requetes[i].pc \in {"libre", "termine"}
        /\ \E path \in Chemins :
           \E limit \in IF path = "/conso" THEN LimitesDemandees ELSE {NaN} :
              /\ requetes' = [requetes EXCEPT ![i] =
                                 [pc |-> "call_next", path |-> path, limit |-> limit,
                                  issue |-> Leve("")]]
              /\ REQUEST_IN_PROGRESS' = IF path = "/metrics" THEN REQUEST_IN_PROGRESS
                                        ELSE REQUEST_IN_PROGRESS + 1
        /\ UNCHANGED <<script, etape, df_meteo, varsNettoyage, varsCalendrier, varsFusion,
                       varsStockage, postgres, DB_RECORDS>>

\* the route runs (in the thread pool) while the middleware waits
Handler ==
    \E i \in DOMAIN requetes :
        /\ script = "api"
        /\ requetes[i].pc = "call_next"
        /\ \E panne \in PannesApi :
              LET table == base["consommation"]
                  r     == requetes[i]
              IN  /\ requetes' = [requetes EXCEPT ![i].pc = "reponse_prete",
                                                  ![i].issue = call_next(r.path, r.limit, table, panne)]
                  /\ DB_RECORDS' = IF r.path = "/metrics" /\ ~LectureImpossible(table, panne)
                                   THEN Count(table) ELSE DB_RECORDS
        /\ UNCHANGED <<script, etape, df_meteo, varsNettoyage, varsCalendrier, varsFusion,
                       varsStockage, postgres, REQUEST_IN_PROGRESS>>

\* log_requests, lines 86 and 102-149: the middleware resumes with the
\* response or the exception of call_next; an exception it raises again is
\* answered by global_exception_handler
Reprise ==
    \E i \in DOMAIN requetes :
        /\ script = "api"
        /\ requetes[i].pc = "reponse_prete"
        /\ LET r == requetes[i]
           IN  /\ requetes' = [requetes EXCEPT ![i].pc = "termine",
                                               ![i].issue = IF r.issue.exception = "" THEN r.issue
                                                            ELSE global_exception_handler(r.issue)]
               /\ REQUEST_IN_PROGRESS' = IF r.path = "/metrics" THEN REQUEST_IN_PROGRESS
                                         ELSE Finally(REQUEST_IN_PROGRESS, r.issue)
        /\ UNCHANGED <<script, etape, df_meteo, varsNettoyage, varsCalendrier, varsFusion,
                       varsStockage, postgres, DB_RECORDS>>

NextApi == Arrivee \/ Handler \/ Reprise

SpecApi == InitApi /\ [][NextApi]_vars

SpecConso == InitConso /\ [][NextApi]_vars

----------------------------------------------------------------------------
(* Claims about the API (checked under SpecApi and SpecConso) *)

\* the requests whose route has answered
Repondues == {i \in DOMAIN requetes : requetes[i].pc \in {"reponse_prete", "termine"}}

ConsoDemandee(i) == requetes[i].path = "/conso"

\* C22: GET /conso with a limit of zero or less is answered with status 400
\* and a detail, without any consumption row, whatever the state of the
\* database; the handler's generic exception branch does not make it a 500.
C22_BadLimitRejected ==
    \A i \in Repondues :
        (ConsoDemandee(i) /\ LimitParam(requetes[i].limit) <= 0) =>
            /\ requetes[i].issue.exception = ""
            /\ requetes[i].issue.status_code = 400
            /\ ~IsNull(requetes[i].issue.detail)
            /\ requetes[i].issue.body = <<>>

\* C22 witness: limit=0 was answered by 400 while the table held rows, and
\* the client has received it.
C22_Witness ==
    \E i \in DOMAIN requetes :
        /\ requetes[i].pc = "termine"
        /\ ConsoDemandee(i)
        /\ requetes[i].limit = Val(0)
        /\ requetes[i].issue.status_code = 400
        /\ base["consommation"] = Val(ConsoApi)

\* C23: GET /conso with a limit above 0 is answered by a list (status 200)
\* or, when the table cannot be read or the list not encoded, by a 500; the
\* list holds at most limit records and never more than 1000, at most 24
\* when no limit is given, and each record carries datetime and mw_conso.
C23_LimitBoundsAnswer ==
    \A i \in Repondues :
        (ConsoDemandee(i) /\ LimitParam(requetes[i].limit) > 0) =>
            LET issue == requetes[i].issue
            IN  /\ issue.exception = "" => issue.status_code \in {200, 500}
                /\ (issue.exception = "" /\ issue.status_code = 200) =>
                      /\ Len(issue.body) <= LimitParam(requetes[i].limit)
                      /\ Len(issue.body) <= 1000
                      /\ IsNull(requetes[i].limit) => Len(issue.body) <= 24
                      /\ \A k \in 1..Len(issue.body) :
                            {"datetime", "mw_conso"} \subseteq DOMAIN issue.body[k]

\* C23 witness: 1001 rows were asked of a table that holds more, and the
\* 1000 most recent came back.
C23_Witness ==
    \E i \in DOMAIN requetes :
        /\ requetes[i].pc = "termine"
        /\ ConsoDemandee(i)
        /\ requetes[i].limit = Val(LimiteMax + 1)
        /\ base["consommation"] = Val(GrandeTable)
        /\ requetes[i].issue.status_code = 200
        /\ Len(requetes[i].issue.body) = LimiteMax
        /\ requetes[i].issue.body[1].datetime = LimiteMax + 1

\* the requests inside log_requests: entered, not yet left
EnCours == {i \in DOMAIN requetes : requetes[i].pc \in {"call_next", "reponse_prete"}}

\* C29: whatever the interleaving of the requests, the gauge
\* api_requests_in_progress is the number of requests to paths other than
\* /metrics that are inside log_requests: it is never negative, it is 0
\* when no such request is in flight, and a request that has left, by a
\* response or by an exception, is no longer counted.
C29_GaugeCountsRequestsInFlight ==
    /\ REQUEST_IN_PROGRESS = Cardinality({i \in EnCours : requetes[i].path # "/metrics"})
    /\ REQUEST_IN_PROGRESS >= 0
    /\ EnCours = {} => REQUEST_IN_PROGRESS = 0

\* C29 witness: a request whose handler raised has left the middleware
\* while another request and a request to /metrics were in flight.
C29_Witness ==
    \E i, j \in DOMAIN requetes :
        /\ requetes[i].pc = "termine"
        /\ requetes[i].path = "/conso"
        /\ requetes[i].issue = global_exception_handler(Leve("ValueError"))
        /\ requetes[j].pc = "call_next"
        /\ requetes[j].path # "/metrics"
        /\ REQUEST_IN_PROGRESS = 1

====
